---- MODULE Spec2Model ----
(***************************************************************************)
(* A model of p9fs: the fsspec adapter P9FileSystem / P9BufferedFile over  *)
(* a 9P connection, its fid pool (py9p.fid.FidCache) and the server side   *)
(* it talks to.  Handlers are modelled as operators over a "world" record  *)
(* W (pool, server tree, server fid table, pending exception, return       *)
(* value); an action applies one whole handler to the current state.       *)
(***************************************************************************)
EXTENDS Integers, Sequences, FiniteSets, TLC

VARIABLES
    version,    \* P9FileSystem.version: "9P2000" | "9P2000.u" | "9P2000.L"
    aname,      \* P9FileSystem.aname: the attach name, "" when none is set
    walkStyle,  \* how the server answers an incomplete walk: "partial" | "error"
    cancreate,  \* LocalFs.cancreate: the server was started with write capability
    fids,       \* FidCache.fids: the free list
    tree,       \* server: kind of every path ("none" | "file" | "dir")
    data,       \* server: content of every file
    perm,       \* server: permission bits of every file and directory
    fault,      \* the protocol call that fails on its way, if any
    caps,       \* server: the most bytes each of its next read replies carries
    bound,      \* server: fid table, fid -> <<>> or <<[path, open]>>
    srvIounit,  \* server: the iounit its open replies carry (0: none)
    files,      \* the P9BufferedFile objects the caller holds
    hist,       \* the handler calls made so far: arguments and outcomes
    pc,         \* per thread: where it stands in a with_fid-wrapped call
    lockOwner,  \* P9FileSystem._rlock: the thread that holds it, 0 for none
    wire,       \* the protocol calls sent on the connection, in order
    nunits      \* the wrapped calls started so far

concVars == <<pc, lockOwner, wire, nunits>>
vars == <<version, aname, walkStyle, cancreate, fids, tree, data, perm, fault, caps, bound, srvIounit,
          files, hist, pc, lockOwner, wire, nunits>>

----------------------------------------------------------------------------
(* Bounds of the model *)

PoolSize == 12          \* number of fids in the pool (limit - start + 1)
MaxOps == 2             \* number of calls a caller makes on one session
DirBatch == 2           \* directory entries one read/readdir reply holds
msize == 26             \* the message size the connection negotiated
blocksize == 6          \* the block size a file is opened with
FilePool == 10          \* handles in the pool of a session that works on files
CopyPool == 24          \* handles in the pool of a session that copies and moves
MaxLen == 5             \* longest byte string one write passes
MaxWritten == 7         \* most bytes written through one file object
MaxUnits == 2           \* wrapped calls the threads start in all
MaxRaw == 1             \* raw transfer calls the threads make in all
MaxDirOps == 3          \* calls of a session that makes and removes directories
ClosePool == 6          \* handles in the pool of a session on a failing connection
MaxNth == 2             \* a failing call is the first to the MaxNth-th of its kind
MaxShort == 2           \* most bytes a server that answers short takes or returns at once
MaxCaps == 2            \* requests that a server answers short
MaxIounit == 2          \* largest iounit a server announces
Names == {"a", "b"}     \* file names on the server

\* Permission bits, two of the nine: "w", one of the read and write bits
\* 0o666 (group write), and "x", one of the others (owner execute)
PermBits == {"w", "x"}
Perms == SUBSET PermBits
P755 == {"x"}           \* 0o755
P644 == {}              \* 0o644

(* Program constants *)
MIN_FID == 1024
IOUNIT == 16384
IOHDRSZ == 24

----------------------------------------------------------------------------
(* Paths.  A server path is a sequence of names; <<>> is the export root.  *)
(* A path string of the adapter is a sequence of tokens: names, "/" and    *)
(* ".", so that concatenation, endswith('/') and pathlib are computed the   *)
(* way the Python code computes them.                                       *)

Paths == {<<>>} \cup {<<x>> : x \in Names} \cup {<<x, y>> : x, y \in Names}

Last(s) == s[Len(s)]
Front(s) == SubSeq(s, 1, Len(s) - 1)

RECURSIVE Join(_)
Join(parts) ==
    IF parts = <<>> THEN <<>>
    ELSE IF Len(parts) = 1 THEN parts
    ELSE Join(Front(parts)) \o <<"/", Last(parts)>>

\* the string of a path, with or without a trailing separator
Str(p, trail) == IF trail /\ p # <<>> THEN Join(p) \o <<"/">> ELSE Join(p)

endswith_sep(s) == s # <<>> /\ Last(s) = "/"

IsSepOrDot(t) == t = "/" \/ t = "."

\* pathlib.Path(s).parts: separators and '.' components dropped, a leading
\* separator kept as the anchor
PathParts(s) ==
    LET names == SelectSeq(s, LAMBDA t : ~IsSepOrDot(t))
    IN IF s # <<>> /\ s[1] = "/" THEN <<"/">> \o names ELSE names

\* str(pathlib.Path) of a sequence of parts
PathStr(parts) ==
    IF parts = <<>> THEN <<".">>
    ELSE IF parts[1] = "/" THEN <<"/">> \o Join(Tail(parts))
    ELSE Join(parts)

\* pathlib.Path(s).parent, pathlib.Path(s).name
PathParent(parts) == IF parts = <<>> THEN <<>> ELSE Front(parts)

\* str(p / name)
PathChild(parts, name) == PathStr(Append(parts, name))

----------------------------------------------------------------------------
(* The fid pool: py9p.fid.FidCache *)

start == MIN_FID
limit == MIN_FID + PoolSize - 1
FidRange == (start..limit) \cup (start..(start + CopyPool - 1))

\* FidCache.__init__: the free list of a pool over first..final
FidCache(first, final) == [i \in 1..(final - first + 1) |-> first + i - 1]

NoExc == "none"

\* an exception is raised, or none is pending any more; eby names the
\* protocol call the pending exception came from
Raise(W, e, a) == [W EXCEPT !.exc = e, !.earg = a, !.eby = ""]

\* raise e: the exception that B ended with is raised again
Reraise(W, B) == [W EXCEPT !.exc = B.exc, !.earg = B.earg, !.eby = B.eby]

\* what one call of acquire saw and did, kept with the call's record
Acquired(W, fid, iounit, after) ==
    [W EXCEPT !.acq = Append(W.acq, [free |-> W.fids, fid |-> fid,
                                      iounit |-> iounit, after |-> after])]

\* acquire with pop() in place of pop(0): the newest free value is taken
acquire_newest(W) ==
    IF W.exc # NoExc THEN W
    ELSE IF Len(W.fids) < 1
         THEN Raise(Acquired(W, -1, 0, W.fids), "NoFidError", "")
    ELSE [Acquired(W, W.fids[Len(W.fids)], IOUNIT, SubSeq(W.fids, 1, Len(W.fids) - 1))
            EXCEPT !.fids = SubSeq(W.fids, 1, Len(W.fids) - 1),
                   !.fid = [fid |-> W.fids[Len(W.fids)], iounit |-> IOUNIT]]

acquire(W) ==
    IF W.exc # NoExc THEN W
    ELSE IF Len(W.fids) < 1
         THEN Raise(Acquired(W, -1, 0, W.fids), "NoFidError", "")
    ELSE [Acquired(W, Head(W.fids), IOUNIT, Tail(W.fids))
            EXCEPT !.fids = Tail(W.fids),
                   !.fid = [fid |-> Head(W.fids), iounit |-> IOUNIT]]

release(W, f) ==
    IF W.exc # NoExc THEN W
    ELSE [W EXCEPT !.fids = Append(W.fids, f.fid), !.rel = Append(W.rel, f.fid)]

----------------------------------------------------------------------------
(* The server: a 9P file server exporting a directory tree.  Its handlers   *)
(* follow py9p's LocalFs where the repository holds them, and the 9P        *)
(* protocol as the design describes it elsewhere.                           *)

ROOT == 0      \* the client's root fid, attached at connect, never clunked

Kind(T, p) == IF p = <<>> THEN "dir" ELSE IF p \in Paths THEN T[p] ELSE "none"

IsBound(B, fid) == fid = ROOT \/ (fid \in FidRange /\ B[fid] # <<>>)
BoundPath(B, fid) == IF fid = ROOT THEN <<>> ELSE B[fid][1].path
BoundOpen(B, fid) == IF fid = ROOT THEN "none" ELSE B[fid][1].open

Binding(p, o) == <<[path |-> p, open |-> o]>>

\* the paths at or below p
Below(p) == {q \in Paths : Len(q) >= Len(p) /\ SubSeq(q, 1, Len(p)) = p}
Children(T, p) == {q \in Paths : Len(q) = Len(p) + 1 /\ Front(q) = p /\ T[q] # "none"}

\* number of leading components of wname that exist below the root
Resolved(T, wname) ==
    LET ok(n) == \A k \in 1..n : Kind(T, SubSeq(wname, 1, k)) # "none"
                                 /\ Kind(T, SubSeq(wname, 1, k - 1)) = "dir"
    IN CHOOSE n \in 0..Len(wname) : ok(n) /\ \A m \in (n+1)..Len(wname) : ~ok(m)

\* the reason a server gives for a missing file, by protocol variant
NotFoundReason == IF version = "9P2000.L" THEN "ENOENT" ELSE "file not found"
ExistsReason == IF version = "9P2000.L" THEN "EEXIST" ELSE "file exists"

Reply(W, r) == [W EXCEPT !.rep = r]
Sent(W, c) == [W EXCEPT !.calls = Append(W.calls, c)]
Call(name, fid) == [c |-> name, fid |-> fid]

\* Twalk from the root: binds newfid when every component resolves
srv_walk(W, newfid, wname) ==
    LET n == Resolved(W.tree, wname)
    IN IF IsBound(W.bound, newfid) THEN Raise(W, "RpcError", "fid in use")
       ELSE IF n = Len(wname)
            THEN Reply([W EXCEPT !.bound[newfid] = Binding(wname, "none")], n)
       ELSE IF walkStyle = "error" THEN Raise(W, "RpcError", NotFoundReason)
       ELSE Reply(W, n)

\* Tcreate (9P2000, 9P2000.u): a directory with DMDIR, else a file that an
\* existing file of that name is truncated by; the fid becomes the new file.
\* A file takes the requested bits, those of 0o666 only where the directory
\* has them: perm & (~0o666 | (dir.mode & 0o666))
srv_create(W, fid, name, isdir, pm) ==
    IF ~cancreate THEN Raise(W, "RpcError", "read-only file server")
    ELSE IF ~IsBound(W.bound, fid) THEN Raise(W, "RpcError", "unknown file")
    ELSE LET dir == BoundPath(W.bound, fid)
             p == Append(dir, name)
         IN IF Kind(W.tree, dir) # "dir" \/ p \notin Paths
                THEN Raise(W, "RpcError", "not a directory")
            ELSE IF isdir
                THEN IF Kind(W.tree, p) # "none" THEN Raise(W, "RpcError", ExistsReason)
                     ELSE [W EXCEPT !.tree[p] = "dir", !.perm[p] = pm,
                                    !.bound[fid] = Binding(p, "none")]
            ELSE IF Kind(W.tree, p) = "dir" THEN Raise(W, "RpcError", "is a directory")
            ELSE [W EXCEPT !.tree[p] = "file", !.data[p] = <<>>,
                           !.perm[p] = {b \in pm : b # "w" \/ "w" \in W.perm[dir]},
                           !.bound[fid] = Binding(p, "r")]

\* Tmkdir (9P2000.L): the fid stays on the directory
srv_mkdir(W, dfid, name, pm) ==
    IF ~IsBound(W.bound, dfid) THEN Raise(W, "RpcError", "unknown fid")
    ELSE LET dir == BoundPath(W.bound, dfid)
             p == Append(dir, name)
         IN IF Kind(W.tree, dir) # "dir" \/ p \notin Paths
                THEN Raise(W, "RpcError", "ENOTDIR")
            ELSE IF Kind(W.tree, p) # "none" THEN Raise(W, "RpcError", ExistsReason)
            ELSE [W EXCEPT !.tree[p] = "dir", !.perm[p] = pm]

\* Tlcreate (9P2000.L) with O_TRUNC | O_CREAT | O_WRONLY: creates the file
\* with the mode given, or truncates the file there is and leaves its mode;
\* the fid becomes the open file
srv_lcreate(W, fid, name, pm) ==
    IF ~IsBound(W.bound, fid) THEN Raise(W, "RpcError", "unknown fid")
    ELSE LET dir == BoundPath(W.bound, fid)
             p == Append(dir, name)
         IN IF Kind(W.tree, dir) # "dir" \/ p \notin Paths
                THEN Raise(W, "RpcError", "ENOTDIR")
            ELSE IF Kind(W.tree, p) = "dir" THEN Raise(W, "RpcError", "EISDIR")
            ELSE [W EXCEPT !.tree[p] = "file", !.data[p] = <<>>,
                           !.perm[p] = IF Kind(W.tree, p) = "file" THEN @ ELSE pm,
                           !.bound[fid] = Binding(p, "w")]

\* the name a stat record carries: the last component (the root's own name
\* is the server's)
StatName(p) == IF p = <<>> THEN "root" ELSE Last(p)

\* Tstat / Tgetattr
srv_stat(W, fid) ==
    IF ~IsBound(W.bound, fid) THEN Raise(W, "RpcError", "unknown file")
    ELSE LET p == BoundPath(W.bound, fid)
         IN IF Kind(W.tree, p) = "none" THEN Raise(W, "RpcError", NotFoundReason)
            ELSE Reply(W, [name |-> StatName(p), isdir |-> Kind(W.tree, p) = "dir",
                           perm |-> W.perm[p],
                           size |-> IF Kind(W.tree, p) = "file" THEN Len(W.data[p]) ELSE 0])

\* Tremove: the file or the empty directory the fid stands for is removed;
\* the fid is clunked whether or not the removal succeeds
srv_remove(W, fid) ==
    IF ~IsBound(W.bound, fid) \/ fid = ROOT THEN Raise(W, "RpcError", "unknown file")
    ELSE IF ~cancreate THEN Raise(W, "RpcError", "read-only file server")
    ELSE LET p == BoundPath(W.bound, fid)
             gone == [W EXCEPT !.bound[fid] = <<>>]
         IN IF Kind(W.tree, p) = "none" THEN Raise(gone, "RpcError", NotFoundReason)
            ELSE IF p = <<>> THEN Raise(gone, "RpcError", "permission denied")
            ELSE IF Children(W.tree, p) # {}
                 THEN Raise(gone, "RpcError", "directory not empty")
            ELSE [W EXCEPT !.bound[fid] = <<>>, !.tree[p] = "none", !.data[p] = <<>>]

\* Tunlinkat (9P2000.L): the entry of that name in the directory the fid
\* stands for is removed; the fid stays on the directory
srv_unlinkat(W, dfid, name) ==
    IF ~IsBound(W.bound, dfid) THEN Raise(W, "RpcError", "unknown fid")
    ELSE LET dir == BoundPath(W.bound, dfid)
             p == Append(dir, name)
         IN IF Kind(W.tree, dir) # "dir" \/ p \notin Paths
                THEN Raise(W, "RpcError", "ENOTDIR")
            ELSE IF Kind(W.tree, p) = "none" THEN Raise(W, "RpcError", "ENOENT")
            ELSE IF Children(W.tree, p) # {} THEN Raise(W, "RpcError", "ENOTEMPTY")
            ELSE [W EXCEPT !.tree[p] = "none", !.data[p] = <<>>]

\* Tclunk
srv_clunk(W, fid) ==
    IF ~IsBound(W.bound, fid) \/ fid = ROOT THEN Raise(W, "RpcError", "unknown file")
    ELSE [W EXCEPT !.bound[fid] = <<>>]

\* os.rename(p, q) on a map F over paths: what was at or below p is at or
\* below q, and nothing is left at p
Moved(F, p, q, nothing) ==
    [r \in DOMAIN F |->
        IF r \in Below(q) THEN F[p \o SubSeq(r, Len(q) + 1, Len(r))]
        ELSE IF r \in Below(p) THEN nothing
        ELSE F[r]]

\* Twstat: the mode is changed unless it is the don't-touch value, then the
\* file is renamed within its directory when a name is given; the server
\* does not ask whether it may write
srv_wstat(W, fid, chmod, pm, name) ==
    IF ~IsBound(W.bound, fid) THEN Raise(W, "RpcError", "unknown file")
    ELSE LET p == BoundPath(W.bound, fid)
             q == Append(PathParent(p), name)
             moves(C) ==
                 IF name = "" \/ q = p THEN C
                 ELSE IF p = <<>> \/ Kind(C.tree, p) = "none"
                      THEN Raise(C, "RpcError", NotFoundReason)
                 ELSE IF Kind(C.tree, q) = "none"
                         \/ (Kind(C.tree, q) = "file" /\ Kind(C.tree, p) = "file")
                         \/ (Kind(C.tree, q) = "dir" /\ Kind(C.tree, p) = "dir"
                             /\ Children(C.tree, q) = {})
                      THEN [C EXCEPT !.tree = Moved(C.tree, p, q, "none"),
                                     !.data = Moved(C.data, p, q, <<>>),
                                     !.perm = Moved(C.perm, p, q, P644)]
                 ELSE Raise(C, "RpcError", ExistsReason)
         IN IF Kind(W.tree, p) = "none" THEN Raise(W, "RpcError", NotFoundReason)
            ELSE moves(IF chmod THEN [W EXCEPT !.perm[p] = pm] ELSE W)

\* the order in which a server lists names
NameSeq == <<"a", "b">>

\* the stat records of the children of directory p, in listing order
DirStats(T, D, P, p) ==
    LET present == SelectSeq(NameSeq, LAMBDA n : Kind(T, Append(p, n)) # "none")
    IN [i \in 1..Len(present) |->
          [name |-> present[i], isdir |-> Kind(T, Append(p, present[i])) = "dir",
           perm |-> P[Append(p, present[i])],
           size |-> IF Kind(T, Append(p, present[i])) = "file"
                    THEN Len(D[Append(p, present[i])]) ELSE 0]]

\* the entries Treaddir lists for directory p: '.', '..' and the children,
\* each with the offset a later call resumes after
DirEntries(T, p) ==
    LET present == SelectSeq(NameSeq, LAMBDA n : Kind(T, Append(p, n)) # "none")
        all == <<".", "..">> \o present
    IN [i \in 1..Len(all) |->
          [name |-> all[i], offset |-> i,
           isdir |-> i <= 2 \/ Kind(T, Append(p, all[i])) = "dir"]]

\* the slice s[from+1 .. from+n], cut at the end of s
Slice(s, from, n) ==
    SubSeq(s, from + 1, IF from + n < Len(s) THEN from + n ELSE Len(s))

\* Topen / Tlopen; the reply carries the server's iounit
srv_open(W, fid, wr, trunc) ==
    IF ~IsBound(W.bound, fid) THEN Raise(W, "RpcError", "unknown file")
    ELSE IF wr /\ ~cancreate THEN Raise(W, "RpcError", "read-only file server")
    ELSE LET p == BoundPath(W.bound, fid)
         IN IF Kind(W.tree, p) = "none" THEN Raise(W, "RpcError", NotFoundReason)
            ELSE IF Kind(W.tree, p) = "dir" /\ wr THEN Raise(W, "RpcError", "is a directory")
            ELSE Reply([W EXCEPT !.bound[fid] = Binding(p, IF wr THEN "w" ELSE "r"),
                                 !.data[p] = IF trunc /\ wr THEN <<>> ELSE @],
                       [iounit |-> W.iounit])

\* Tread on a directory (9P2000, 9P2000.u): whole stat records from the
\* offset on, as many as one reply holds; a record counts one unit of offset
srv_read_dir(W, fid, offset) ==
    IF ~IsBound(W.bound, fid) \/ BoundOpen(W.bound, fid) = "none"
    THEN Raise(W, "RpcError", "unknown file")
    ELSE Reply(W, Slice(DirStats(W.tree, W.data, W.perm, BoundPath(W.bound, fid)),
                     offset, DirBatch))

\* Treaddir (9P2000.L): the entries after the offset, as many as one reply holds
srv_readdir(W, fid, offset) ==
    IF ~IsBound(W.bound, fid) \/ BoundOpen(W.bound, fid) = "none"
    THEN Raise(W, "RpcError", "unknown fid")
    ELSE Reply(W, Slice(DirEntries(W.tree, BoundPath(W.bound, fid)), offset, DirBatch))

\* the content of a file after bytes are written at an offset: a gap
\* between the old end and the offset reads as zeros
Overwrite(old, offset, bytes) ==
    LET n == IF offset + Len(bytes) > Len(old) THEN offset + Len(bytes) ELSE Len(old)
    IN [i \in 1..n |-> IF i > offset /\ i <= offset + Len(bytes) THEN bytes[i - offset]
                       ELSE IF i <= Len(old) THEN old[i] ELSE 0]

\* Twrite: the fid has to be open for writing.  The reply carries the count
\* of bytes the server took: all of them, or as many as it makes of this
\* request
srv_write(W, fid, offset, bytes) ==
    IF ~cancreate THEN Raise(W, "RpcError", "read-only file server")
    ELSE IF ~IsBound(W.bound, fid) THEN Raise(W, "RpcError", "unknown file")
    ELSE IF BoundOpen(W.bound, fid) # "w" THEN Raise(W, "RpcError", "not open for writing")
    ELSE LET p == BoundPath(W.bound, fid)
             n == IF W.caps = <<>> \/ Len(bytes) <= Head(W.caps)
                  THEN Len(bytes) ELSE Head(W.caps)
         IN Reply([W EXCEPT !.data[p] = Overwrite(W.data[p], offset, Slice(bytes, 0, n)),
                            !.caps = IF W.caps = <<>> THEN <<>> ELSE Tail(W.caps)], n)

\* Tread on a file: the bytes from the offset on, at most count, and at
\* most what the server makes of this reply
srv_read(W, fid, offset, count) ==
    IF ~IsBound(W.bound, fid) THEN Raise(W, "RpcError", "unknown file")
    ELSE IF BoundOpen(W.bound, fid) # "r" THEN Raise(W, "RpcError", "not open for reading")
    ELSE IF W.caps = <<>>
         THEN Reply(W, Slice(W.data[BoundPath(W.bound, fid)], offset, count))
    ELSE Reply([W EXCEPT !.caps = Tail(W.caps)],
               Slice(W.data[BoundPath(W.bound, fid)], offset,
                     IF Head(W.caps) < count THEN Head(W.caps) ELSE count))

----------------------------------------------------------------------------
(* The client engine: py9p.Client.  Each method sends one request and      *)
(* raises RpcError when the server answers with an error.  A call is not    *)
(* made while an exception is propagating.                                  *)

NoFault == [c |-> "", n |-> 0]

\* the request is the one that fails on its way: the n-th call of its kind
Faulty(W, c) ==
    /\ W.fault.c = c
    /\ Cardinality({i \in DOMAIN W.calls : W.calls[i].c = c}) = W.fault.n

\* what the call returns or raises, for a request that was sent as S and
\* that the server answers with R
Answer(S, R, c) ==
    IF Faulty(S, c) THEN [S EXCEPT !.exc = "RpcError", !.earg = "EIO", !.eby = c]
    ELSE IF R.exc # NoExc THEN [R EXCEPT !.eby = c]
    ELSE R

client_walk(W, newfid, wname) ==
    LET sent(S) == Answer(S, srv_walk(S, newfid, wname), "walk")
    IN IF W.exc # NoExc THEN W ELSE sent(Sent(W, Call("walk", newfid)))

client_create(W, fid, name, isdir, pm) ==
    LET sent(S) == Answer(S, srv_create(S, fid, name, isdir, pm), "create")
    IN IF W.exc # NoExc THEN W ELSE sent(Sent(W, Call("create", fid)))

client_mkdir(W, fid, name, pm) ==
    LET sent(S) == Answer(S, srv_mkdir(S, fid, name, pm), "mkdir")
    IN IF W.exc # NoExc THEN W ELSE sent(Sent(W, Call("mkdir", fid)))

client_lcreate(W, fid, name, pm) ==
    LET sent(S) == Answer(S, srv_lcreate(S, fid, name, pm), "lcreate")
    IN IF W.exc # NoExc THEN W ELSE sent(Sent(W, Call("lcreate", fid)))

client_stat(W, fid) ==
    LET sent(S) == Answer(S, srv_stat(S, fid), "stat")
    IN IF W.exc # NoExc THEN W ELSE sent(Sent(W, Call("stat", fid)))

client_getattr(W, fid) ==
    LET sent(S) == Answer(S, srv_stat(S, fid), "getattr")
    IN IF W.exc # NoExc THEN W ELSE sent(Sent(W, Call("getattr", fid)))

client_clunk(W, fid) ==
    LET sent(S) == Answer(S, srv_clunk(S, fid), "clunk")
    IN IF W.exc # NoExc THEN W ELSE sent(Sent(W, Call("clunk", fid)))

client_remove(W, fid) ==
    LET sent(S) == Answer(S, srv_remove(S, fid), "remove")
    IN IF W.exc # NoExc THEN W ELSE sent(Sent(W, Call("remove", fid)))

client_unlinkat(W, fid, name) ==
    LET sent(S) == Answer(S, srv_unlinkat(S, fid, name), "unlinkat")
    IN IF W.exc # NoExc THEN W ELSE sent(Sent(W, Call("unlinkat", fid)))

client_open(W, fid, wr, trunc) ==
    LET sent(S) == Answer(S, srv_open(S, fid, wr, trunc), "open")
    IN IF W.exc # NoExc THEN W ELSE sent(Sent(W, Call("open", fid)))

client_lopen(W, fid, wr, trunc) ==
    LET sent(S) == Answer(S, srv_open(S, fid, wr, trunc), "lopen")
    IN IF W.exc # NoExc THEN W ELSE sent(Sent(W, Call("lopen", fid)))

client_read_dir(W, fid, offset) ==
    LET sent(S) == Answer(S, srv_read_dir(S, fid, offset), "read")
    IN IF W.exc # NoExc THEN W ELSE sent(Sent(W, Call("read", fid)))

client_readdir(W, fid, offset) ==
    LET sent(S) == Answer(S, srv_readdir(S, fid, offset), "readdir")
    IN IF W.exc # NoExc THEN W ELSE sent(Sent(W, Call("readdir", fid)))

\* a transfer request as it went out, with what came back: the bytes of a
\* read or the count of a write; n is -1 when the call raised
Transfer(R, c, fid, offset, count, bytes) ==
    [R EXCEPT !.io = Append(R.io,
        [c |-> c, fid |-> fid, offset |-> offset, count |-> count,
         bytes |-> IF c = "write" THEN bytes ELSE IF R.exc = NoExc THEN R.rep ELSE <<>>,
         n |-> IF R.exc # NoExc THEN -1 ELSE IF c = "write" THEN R.rep ELSE Len(R.rep)])]

client_write(W, fid, offset, bytes) ==
    LET answered(R) == Transfer(R, "write", fid, offset, Len(bytes), bytes)
        sent(S) == answered(Answer(S, srv_write(S, fid, offset, bytes), "write"))
    IN IF W.exc # NoExc THEN W ELSE sent(Sent(W, Call("write", fid)))

client_read(W, fid, offset, count) ==
    LET answered(R) == Transfer(R, "read", fid, offset, count, <<>>)
        sent(S) == answered(Answer(S, srv_read(S, fid, offset, count), "read"))
    IN IF W.exc # NoExc THEN W ELSE sent(Sent(W, Call("read", fid)))

----------------------------------------------------------------------------
(* The adapter: P9FileSystem *)

\* the decorator: a transient fid is acquired, then the method runs under
\* the session lock; the fid is in W.fid
with_fid(W) == acquire(W)

\* the list makedirs walks: the parents of the path, outermost first and
\* without '.', then the path as given
makedirs_items(path) ==
    LET parts == PathParts(path)
    IN [k \in 1..(Len(parts) - 1) |-> PathStr(SubSeq(parts, 1, k))] \o <<path>>

\* The statements of a handler are local operators, each taking the state
\* the statement before it has left.

\* A mode is the directory bit and the permission bits: S_IFDIR with
\* stat's layout, DMDIR with the protocol's.  py9p.mode2plan and
\* py9p.mode2stat carry both from one layout to the other.
Mode(isdir, pm) == [ifdir |-> isdir, perm |-> pm]
mode2plan(mode) == [dmdir |-> mode.ifdir, perm |-> mode.perm]
mode2stat(mode) == [ifdir |-> mode.dmdir, perm |-> mode.perm]

_mknod(W0, path, mode) ==
    LET parts == PathParts(path)
        create(W1, tfid) ==
            IF W1.exc # NoExc THEN W1
            ELSE IF parts = <<>> THEN Raise(W1, "IndexError", "")
            ELSE IF version = "9P2000.L"
                 THEN IF mode.ifdir
                      THEN client_mkdir(W1, tfid, Last(parts), mode2plan(mode).perm)
                      ELSE client_lcreate(W1, tfid, Last(parts), mode.perm)
            ELSE client_create(W1, tfid, Last(parts), mode2plan(mode).dmdir,
                               mode2plan(mode).perm)
        body(A, tfid) ==
            client_clunk(create(client_walk(A, tfid, PathParent(parts)), tfid), tfid)
        wrapped(A) == body(A, A.fid.fid)
    IN wrapped(with_fid(W0))

_mkdir(W, path) == _mknod(W, path, Mode(TRUE, P755))

_info_from_rgetattr(path, response) ==
    [name |-> IF response.isdir /\ ~endswith_sep(path) THEN path \o <<"/">> ELSE path,
     type |-> IF response.isdir THEN "directory" ELSE "file",
     mode |-> mode2stat([dmdir |-> response.isdir, perm |-> response.perm]),
     size |-> response.size]

\* one record of the list _info_from_rstat builds
_info_from_rstat(parent, item) ==
    LET full_name == IF endswith_sep(parent) THEN Append(parent, item.name)
                     ELSE parent \o <<"/", item.name>>
    IN [name |-> IF item.isdir THEN Append(full_name, "/") ELSE full_name,
        type |-> IF item.isdir THEN "directory" ELSE "file",
        mode |-> mode2stat([dmdir |-> item.isdir, perm |-> item.perm]),
        size |-> item.size]

\* _info without the comparison of the reply's qid count: any walk reply
\* that is not an error counts as found
_info_any_reply(W0, path) ==
    LET parts == PathParts(path)
        return(W3, W4) ==
            IF W4.exc # NoExc THEN W4
            ELSE IF version = "9P2000.L"
                 THEN Reply(W4, _info_from_rgetattr(path, W3.rep))
            ELSE Reply(W4, _info_from_rstat(PathStr(PathParent(parts)), W3.rep))
        clunk(W3, tfid) == return(W3, client_clunk(W3, tfid))
        stat(W2, tfid) ==
            clunk(IF version = "9P2000.L" THEN client_getattr(W2, tfid)
                  ELSE client_stat(W2, tfid), tfid)
        body(A, tfid) == stat(client_walk(A, tfid, parts), tfid)
        wrapped(A) == body(A, A.fid.fid)
    IN wrapped(with_fid(W0))

_info(W0, path) ==
    LET parts == PathParts(path)
        return(W3, W4) ==
            IF W4.exc # NoExc THEN W4
            ELSE IF version = "9P2000.L"
                 THEN Reply(W4, _info_from_rgetattr(path, W3.rep))
            ELSE Reply(W4, _info_from_rstat(PathStr(PathParent(parts)), W3.rep))
        clunk(W3, tfid) == return(W3, client_clunk(W3, tfid))
        stat(W2, tfid) ==
            clunk(IF version = "9P2000.L" THEN client_getattr(W2, tfid)
                  ELSE client_stat(W2, tfid), tfid)
        found(W1) ==
            IF W1.exc = NoExc /\ W1.rep # Len(parts)
            THEN Raise(W1, "P9FileNotFound", "") ELSE W1
        body(A, tfid) == stat(found(client_walk(A, tfid, parts)), tfid)
        wrapped(A) == body(A, A.fid.fid)
    IN wrapped(with_fid(W0))

\* info that takes every protocol error for a missing path
info_any_rpc_error(W, path) ==
    LET except(R) ==
            IF R.exc = "RpcError" THEN Raise(R, "P9FileNotFound", "") ELSE R
    IN IF W.exc # NoExc THEN W ELSE except(_info(W, path))

info(W, path) ==
    LET except(R) ==
            IF R.exc = "RpcError" /\ R.earg \in {"file not found", "ENOENT"}
            THEN Raise(R, "P9FileNotFound", "") ELSE R
    IN IF W.exc # NoExc THEN W ELSE except(_info(W, path))

exists(W, path) ==
    LET except(R) ==
            IF R.exc = NoExc THEN Reply(R, TRUE)
            ELSE IF R.exc = "P9FileNotFound" THEN Reply(Raise(R, NoExc, ""), FALSE)
            ELSE R
    IN IF W.exc # NoExc THEN W ELSE except(info(W, path))

isdir(W, path) ==
    LET except(R) ==
            IF R.exc = NoExc THEN Reply(R, R.rep.type = "directory")
            ELSE IF R.exc = "P9FileNotFound" THEN Reply(Raise(R, NoExc, ""), FALSE)
            ELSE R
    IN IF W.exc # NoExc THEN W ELSE except(info(W, path))

\* isfile that asks for existence only
isfile_exists(W, path) ==
    LET except(R) ==
            IF R.exc = NoExc THEN Reply(R, TRUE)
            ELSE IF R.exc = "P9FileNotFound" THEN Reply(Raise(R, NoExc, ""), FALSE)
            ELSE R
    IN IF W.exc # NoExc THEN W ELSE except(info(W, path))

isfile(W, path) ==
    LET except(R) ==
            IF R.exc = NoExc THEN Reply(R, R.rep.type = "file")
            ELSE IF R.exc = "P9FileNotFound" THEN Reply(Raise(R, NoExc, ""), FALSE)
            ELSE R
    IN IF W.exc # NoExc THEN W ELSE except(info(W, path))

RECURSIVE makedirs(_, _, _)
RECURSIVE makedirs_loop(_, _, _)

mkdir(W, path, create_parents, exist_ok) ==
    IF create_parents THEN makedirs(W, path, exist_ok)
    ELSE _mkdir(W, path)

RECURSIVE makedirs_loop_create_all(_, _, _)
\* the loop of makedirs without the existence check: every item is created
makedirs_loop_create_all(W, items, exist_ok) ==
    IF items = <<>> \/ W.exc # NoExc THEN W
    ELSE makedirs_loop_create_all(_mkdir(W, Head(items)), Tail(items), exist_ok)

\* the for loop of makedirs over the remaining items
makedirs_loop(W, items, exist_ok) ==
    LET item == Head(items)
        is_dir(D) ==
            IF D.exc # NoExc THEN D
            ELSE IF ~D.rep THEN Raise(D, "P9Error", "exists and not a directory")
            ELSE makedirs_loop(D, Tail(items), exist_ok)
        checked(E) ==
            IF E.exc # NoExc THEN E
            ELSE IF exist_ok /\ E.rep THEN is_dir(isdir(E, item))
            ELSE makedirs_loop(mkdir(E, item, FALSE, FALSE), Tail(items), exist_ok)
    IN IF items = <<>> \/ W.exc # NoExc THEN W
       ELSE checked(IF exist_ok THEN exists(W, item) ELSE W)

makedirs(W, path, exist_ok) == makedirs_loop(W, makedirs_items(path), exist_ok)

\* try: body finally: self.client._clunk(tfid), for a body that ended as B
finally_clunk(B, tfid) ==
    LET finally(C) == IF C.exc # NoExc THEN C ELSE Reply(Reraise(C, B), B.rep)
    IN finally(client_clunk(Raise(B, NoExc, ""), tfid))

RECURSIVE _lsdir_loop(_, _, _, _, _)
\* the while loop of _lsdir
_lsdir_loop(W, tfid, path, offset, items) ==
    LET read(R) ==
            IF R.exc # NoExc THEN R
            ELSE IF Len(R.rep) = 0 THEN Reply(R, items)
            ELSE _lsdir_loop(R, tfid, path, offset + Len(R.rep),
                             items \o [i \in 1..Len(R.rep) |->
                                         _info_from_rstat(path, R.rep[i])])
    IN read(client_read_dir(W, tfid, offset))

_lsdir(W0, path) ==
    LET try(W2, tfid) ==
            finally_clunk(IF W2.exc # NoExc THEN W2
                          ELSE _lsdir_loop(W2, tfid, path, 0, <<>>), tfid)
        walked(W1, tfid) ==
            IF W1.exc # NoExc THEN W1 ELSE try(client_open(W1, tfid, FALSE, FALSE), tfid)
        wrapped(A) == walked(client_walk(A, A.fid.fid, PathParts(path)), A.fid.fid)
    IN wrapped(with_fid(W0))

\* the names _readdir appends for the entries of one reply
readdir_names(p, entries) ==
    LET kept == SelectSeq(entries, LAMBDA e : ~(e.name = "." \/ e.name = ".."))
    IN [i \in 1..Len(kept) |->
          IF kept[i].isdir THEN Append(PathChild(p, kept[i].name), "/")
          ELSE PathChild(p, kept[i].name)]

RECURSIVE _readdir_loop(_, _, _, _, _)
\* the while loop of _readdir
_readdir_loop(W, tfid, p, offset, items) ==
    LET read(R) ==
            IF R.exc # NoExc THEN R
            ELSE IF Len(R.rep) = 0 THEN Reply(R, items)
            ELSE _readdir_loop(R, tfid, p, Last(R.rep).offset,
                               items \o readdir_names(p, R.rep))
    IN read(client_readdir(W, tfid, offset))

_readdir(W0, path) ==
    LET p == PathParts(path)
        try(W2, tfid) ==
            finally_clunk(IF W2.exc # NoExc THEN W2
                          ELSE _readdir_loop(W2, tfid, p, 0, <<>>), tfid)
        walked(W1, tfid) ==
            IF W1.exc # NoExc THEN W1 ELSE try(client_lopen(W1, tfid, FALSE, FALSE), tfid)
        wrapped(A) == walked(client_walk(A, A.fid.fid, p), A.fid.fid)
    IN wrapped(with_fid(W0))

RECURSIVE ls_infos(_, _, _)
\* [self.info(item) for item in items]
ls_infos(W, items, infos) ==
    LET add(R) == ls_infos(R, Tail(items), Append(infos, R.rep))
    IN IF W.exc # NoExc THEN W
       ELSE IF items = <<>> THEN Reply(W, infos)
       ELSE add(info(W, Head(items)))

\* ls returns a list for a directory, and one info or name for a file
ls(W, path, detail) ==
    LET infos(R) == IF R.exc # NoExc \/ ~detail THEN R ELSE ls_infos(R, R.rep, <<>>)
        names(R) == IF R.exc # NoExc \/ detail THEN R
                    ELSE Reply(R, [i \in 1..Len(R.rep) |-> R.rep[i].name])
        listing(I) ==
            IF I.exc # NoExc THEN I
            ELSE IF I.rep.type # "directory"
                 THEN (IF detail THEN I ELSE Reply(I, I.rep.name))
            ELSE IF version = "9P2000.L" THEN infos(_readdir(I, path))
            ELSE names(_lsdir(I, path))
    IN listing(info(W, path))

NoFid == [fid |-> -1, iounit |-> 0]     \* None, where a Fid is expected

\* _open_fid; wr stands for os.O_WRONLY | os.O_TRUNC, else os.O_RDONLY.
\* The opened Fid is W.rep.
_open_fid(W0, path, wr) ==
    LET return(W2, f) ==
            IF W2.exc # NoExc
            THEN Reraise(release(Raise(W2, NoExc, ""), f), W2)
            ELSE Reply(W2, [fid |-> f.fid,
                            iounit |-> IF W2.rep.iounit = 0 THEN msize
                                       ELSE W2.rep.iounit])
        open(W1, f) ==
            return(IF version = "9P2000.L" THEN client_lopen(W1, f.fid, wr, wr)
                   ELSE client_open(W1, f.fid, wr, wr), f)
        body(A) ==
            IF A.exc # NoExc THEN A
            ELSE open(client_walk(A, A.fid.fid, PathParts(path)), A.fid)
    IN body(acquire(with_fid(W0)))

_release_fid(W0, f) ==
    LET except(C) == IF C.exc = "RpcError" THEN Raise(C, NoExc, "") ELSE release(C, f)
        body(T) == IF T.exc # NoExc \/ f = NoFid THEN T ELSE except(client_clunk(T, f.fid))
    IN body(with_fid(W0))

Min(a, b) == IF a < b THEN a ELSE b

RECURSIVE _write_loop(_, _, _, _, _, _)
\* the for loop of _write, from iteration i on
_write_loop(W, buf, offset, f, i, n) ==
    IF W.exc # NoExc \/ i >= n THEN W
    ELSE _write_loop(client_write(W, f.fid, offset + i * f.iounit,
                                  Slice(buf, i * f.iounit, f.iounit)),
                     buf, offset, f, i + 1, n)

\* a variant that returns the count of the last reply
_write_last_reply(W, buf, offset, f) ==
    LET return(R) == IF R.exc # NoExc \/ Len(buf) > 0 THEN R ELSE Reply(R, 0)
    IN return(_write_loop(W, buf, offset, f, 0, (Len(buf) + f.iounit - 1) \div f.iounit))

_write(W, buf, offset, f) ==
    LET return(R) == IF R.exc # NoExc THEN R ELSE Reply(R, Len(buf))
    IN return(_write_loop(W, buf, offset, f, 0, (Len(buf) + f.iounit - 1) \div f.iounit))

RECURSIVE _read_loop_by_request(_, _, _, _, _)
\* a variant that shifts the offset by the size it asked for
_read_loop_by_request(W, size, offset, f, bytes) ==
    LET read(R) ==
            IF R.exc # NoExc THEN R
            ELSE IF size <= Len(bytes \o R.rep) \/ Len(R.rep) = 0
                 THEN Reply(R, Slice(bytes \o R.rep, 0, size))
            ELSE _read_loop_by_request(R, size, offset + Min(size - Len(bytes), f.iounit),
                                       f, bytes \o R.rep)
    IN read(client_read(W, f.fid, offset, Min(size - Len(bytes), f.iounit)))

RECURSIVE _read_loop(_, _, _, _, _)
\* the while loop of _read
_read_loop(W, size, offset, f, bytes) ==
    LET read(R) ==
            IF R.exc # NoExc THEN R
            ELSE IF size <= Len(bytes \o R.rep) \/ Len(R.rep) = 0
                 THEN Reply(R, Slice(bytes \o R.rep, 0, size))
            ELSE _read_loop(R, size, offset + Len(R.rep), f, bytes \o R.rep)
    IN read(client_read(W, f.fid, offset, Min(size - Len(bytes), f.iounit)))

_read(W, size, offset, f) == _read_loop(W, size, offset, f, <<>>)

\* pathlib.Path(path).name
PathName(parts) == IF parts = <<>> \/ parts = <<"/">> THEN "" ELSE Last(parts)

\* _unlink with the two ways of removing exchanged between the variants
_unlink_by_target_on_linux(W0, path) ==
    LET p == PathParts(path)
        body(A, tfid) ==
            IF version = "9P2000.L" /\ aname = ""
            THEN client_remove(client_walk(A, tfid, p), tfid)
            ELSE client_unlinkat(client_walk(A, tfid, PathParent(p)), tfid, PathName(p))
        wrapped(A) == body(A, A.fid.fid)
    IN wrapped(with_fid(W0))

_unlink(W0, path) ==
    LET p == PathParts(path)
        body(A, tfid) ==
            IF version = "9P2000.L" /\ aname = ""
            THEN client_unlinkat(client_walk(A, tfid, PathParent(p)), tfid, PathName(p))
            ELSE client_remove(client_walk(A, tfid, p), tfid)
        wrapped(A) == body(A, A.fid.fid)
    IN wrapped(with_fid(W0))

rmdir(W, path) == _unlink(W, path)

_rm(W, path) == _unlink(W, path)

\* str(pathlib.Path(path2) / pathlib.Path(path1).name)
Into(path2, path1) ==
    IF PathName(PathParts(path1)) = "" THEN PathStr(PathParts(path2))
    ELSE PathChild(PathParts(path2), PathName(PathParts(path1)))

RECURSIVE cp_loop(_, _, _, _, _)
\* the for loop of cp_file, from iteration i on
cp_loop(W, sf, df, i, n) ==
    LET write(R) ==
            IF R.exc # NoExc THEN R
            ELSE cp_loop(_write(R, R.rep, i * msize, df), sf, df, i + 1, n)
    IN IF W.exc # NoExc \/ i >= n THEN W
       ELSE write(_read(W, msize, i * msize, sf))

\* the opened Fids are sf and df; a statement gets the state as the one
\* before it left it, the value that one returned in its rep field
cp_file(W0, path1, path2) ==
    LET released(F, B) == IF F.exc # NoExc THEN F ELSE Reply(Reraise(F, B), 0)
        finally(B, sf, df) ==
            released(_release_fid(_release_fid(Raise(B, NoExc, ""), sf), df), B)
        try(W5, src_info, sf) ==
            IF W5.exc # NoExc THEN W5
            ELSE finally(cp_loop(W5, sf, W5.rep, 0, (src_info.size + msize - 1) \div msize),
                         sf, W5.rep)
        opened(W4, src_info, dst) ==
            IF W4.exc # NoExc THEN W4
            ELSE try(_open_fid(W4, dst, TRUE), src_info, W4.rep)
        open(W3, src_info, dst) == opened(_open_fid(W3, path1, FALSE), src_info, dst)
        retarget(W2, src_info) ==
            IF W2.exc # NoExc THEN W2
            ELSE IF W2.rep.type = "directory"
                 THEN open(_mknod(W2, Into(path2, path1), src_info.mode),
                           src_info, Into(path2, path1))
            ELSE open(W2, src_info, path2)
        except(W1, src_info) ==
            IF W1.exc = "P9FileNotFound"
            THEN retarget(info(_mknod(Raise(W1, NoExc, ""), path2, src_info.mode), path2),
                          src_info)
            ELSE retarget(W1, src_info)
        dst_info(I) == IF I.exc # NoExc THEN I ELSE except(info(I, path2), I.rep)
    IN dst_info(info(W0, path1))

\* path.rstrip('/')
rstrip_sep(path) ==
    IF endswith_sep(path) THEN SubSeq(path, 1, Len(path) - 1) ELSE path

\* AbstractFileSystem.copy of one path, not recursive: the source has to
\* exist, a directory is not copied, a file is handed to cp_file
copy(W, path1, path2) ==
    LET dest(D) == IF D.exc # NoExc THEN D ELSE cp_file(D, path1, rstrip_sep(path2))
        filter(S) ==
            IF S.exc # NoExc \/ S.rep THEN S ELSE dest(isdir(S, path2))
        expanded(E) ==
            IF E.exc # NoExc THEN E
            ELSE IF ~E.rep THEN Raise(E, "FileNotFoundError", "")
            ELSE filter(isdir(E, path1))
    IN expanded(exists(W, path1))

\* AbstractFileSystem.rm of one path, not recursive: rm_file, that is _rm
rm(W, path) ==
    LET expanded(E) ==
            IF E.exc # NoExc THEN E
            ELSE IF ~E.rep THEN Raise(E, "FileNotFoundError", "")
            ELSE _rm(E, path)
    IN expanded(exists(W, path))

mv(W, path1, path2) ==
    IF path1 = path2 THEN W
    ELSE rm(copy(W, path1, path2), path1)

----------------------------------------------------------------------------
(* The buffered file: P9BufferedFile over fsspec's AbstractBufferedFile.   *)
(* The file object a handler runs on is W.self; None is -1 for the offset  *)
(* and NoFid for _f.                                                        *)

NewFile(path, mode) ==
    [path |-> path, mode |-> mode, closed |-> FALSE, forced |-> FALSE,
     offset |-> -1, buffer |-> <<>>, _f |-> NoFid, size |-> 0,
     wrote |-> <<>>]     \* wrote: every byte write() accepted, kept for the properties

\* no file object
NoFile == [NewFile(<<>>, "") EXCEPT !.closed = TRUE]

\* P9FileSystem._open: the constructor; a file opened for reading takes its
\* size from info
file_open(W, path, mode) ==
    LET sized(I) ==
            IF I.exc # NoExc THEN I
            ELSE [I EXCEPT !.self = [NewFile(path, mode) EXCEPT !.size = I.rep.size]]
    IN IF mode = "rb" THEN sized(info(W, path))
       ELSE [W EXCEPT !.self = NewFile(path, mode)]

_initiate_upload(W) ==
    LET opened(W3) == IF W3.exc # NoExc THEN W3 ELSE [W3 EXCEPT !.self._f = W3.rep]
        made(W2) == opened(_open_fid(W2, W2.self.path, TRUE))
        started(W1) == made(_mknod(W1, W1.self.path, Mode(FALSE, P755)))
    IN IF W.exc # NoExc THEN W ELSE started([W EXCEPT !.self.offset = 0])

RECURSIVE upload_loop(_, _, _)
\* the while loop of _upload_chunk
upload_loop(W, bytes, offset) ==
    IF W.exc # NoExc \/ ~(offset < Len(bytes) - 1) THEN W
    ELSE upload_loop(_write(W, Slice(bytes, offset,
                                     Min(msize - IOHDRSZ, Len(bytes) - offset)),
                            W.self.offset + offset, W.self._f),
                     bytes, offset + Min(msize - IOHDRSZ, Len(bytes) - offset))

\* a variant that creates and opens the remote file for every chunk
_upload_chunk_initiate_each(W) ==
    LET return(U) == IF U.exc # NoExc THEN U ELSE Reply(U, TRUE)
        initiated(I) ==
            IF I.exc # NoExc THEN [I EXCEPT !.self.closed = TRUE]
            ELSE return(upload_loop(I, I.self.buffer, 0))
    IN IF W.exc # NoExc THEN W ELSE initiated(_initiate_upload(W))

_upload_chunk(W) ==
    LET return(U) == IF U.exc # NoExc THEN U ELSE Reply(U, TRUE)
        initiated(I) ==
            IF I.exc # NoExc THEN [I EXCEPT !.self.closed = TRUE]
            ELSE return(upload_loop(I, I.self.buffer, 0))
    IN IF W.exc # NoExc THEN W
       ELSE initiated(IF W.self.offset = -1 \/ W.self._f = NoFid
                      THEN _initiate_upload(W) ELSE W)

\* AbstractBufferedFile.flush
flush(W, force) ==
    LET uploaded(W3) ==
            IF W3.exc # NoExc THEN W3
            ELSE [W3 EXCEPT !.self.offset = W3.self.offset + Len(W3.self.buffer),
                            !.self.buffer = <<>>]
        initiated(I) ==
            IF I.exc # NoExc THEN [I EXCEPT !.self.closed = TRUE]
            ELSE uploaded(_upload_chunk(I))
        checked(W1) ==
            IF W1.self.mode # "wb" THEN W1
            ELSE IF ~force /\ Len(W1.self.buffer) < blocksize THEN W1
            ELSE IF W1.self.offset = -1 THEN initiated(_initiate_upload(W1))
            ELSE uploaded(_upload_chunk(W1))
    IN IF W.exc # NoExc THEN W
       ELSE IF W.self.closed THEN Raise(W, "ValueError", "Flush on closed file")
       ELSE IF force /\ W.self.forced THEN Raise(W, "ValueError", "Force flush twice")
       ELSE checked([W EXCEPT !.self.forced = W.self.forced \/ force])

\* AbstractBufferedFile.write
file_write(W, bytes) ==
    LET buffered(W1) ==
            IF Len(W1.self.buffer) >= blocksize THEN flush(W1, FALSE) ELSE W1
    IN IF W.self.mode # "wb" THEN Raise(W, "ValueError", "File not in write mode")
       ELSE IF W.self.closed THEN Raise(W, "ValueError", "I/O operation on closed file")
       ELSE IF W.self.forced THEN Raise(W, "ValueError", "force-flushed")
       ELSE buffered([W EXCEPT !.self.buffer = W.self.buffer \o bytes])

\* AbstractBufferedFile.close: the last flush, then closed whatever happened
base_close(W) ==
    LET finally(F) == [F EXCEPT !.self.closed = TRUE]
    IN IF W.self.closed THEN W
       ELSE finally(IF W.self.mode # "rb" /\ ~W.self.forced THEN flush(W, TRUE) ELSE W)

\* P9BufferedFile.close
file_close(W) ==
    LET release_fid(S) == IF S.exc # NoExc THEN S ELSE _release_fid(S, S.self._f)
    IN release_fid(base_close(W))

RECURSIVE fetch_loop(_, _, _, _)
\* the while loop of _fetch_range; a read of no byte leaves the offset where
\* it is and the loop never ends, which the outcome "Hang" stands for
fetch_loop(W, offset, end, bytes) ==
    LET write(R) ==
            IF R.exc # NoExc THEN R
            ELSE IF Len(R.rep) = 0 THEN Raise(R, "Hang", "")
            ELSE fetch_loop(R, offset + Len(R.rep), end, bytes \o R.rep)
    IN IF W.exc # NoExc THEN W
       ELSE IF ~(offset < end) THEN Reply(W, bytes)
       ELSE write(_read(W, Min(msize - IOHDRSZ, end - offset + 1), offset, W.self._f))

_fetch_range(W, from, end) ==
    LET opened(X) == IF X.exc # NoExc THEN X ELSE [X EXCEPT !.self._f = X.rep]
    IN fetch_loop(IF W.self._f # NoFid THEN W ELSE opened(_open_fid(W, W.self.path, FALSE)),
                  from, end, <<>>)

----------------------------------------------------------------------------
(* State *)

Versions == {"9P2000", "9P2000.u", "9P2000.L"}
Kinds == {"none", "file", "dir"}

\* the trees a server can export: what exists lies in a directory
Trees == {T \in [Paths \ {<<>>} -> Kinds] :
            \A p \in Paths \ {<<>>} : T[p] # "none" => Kind(T, Front(p)) = "dir"}

\* the path strings a caller passes: a path, with or without a trailing '/'
InPaths == {Str(p, t) : p \in Paths, t \in BOOLEAN}

FileIds == {1, 2}       \* the file objects a caller may hold at a time
Threads == {1, 2}       \* the threads that share one session

Idle == [at |-> "idle", unit |-> "", path |-> <<>>, tfid |-> -1, k |-> 0, serial |-> 0]

\* the permission bits of a tree made with the defaults
DefaultPerm(T) == [p \in Paths |-> IF Kind(T, p) = "dir" THEN P755 ELSE P644]

\* no thread is at work
ConcIdle ==
    /\ pc = [t \in Threads |-> Idle]
    /\ lockOwner = 0
    /\ wire = <<>>
    /\ nunits = 0

NoInfo == [name |-> <<>>, type |-> "", mode |-> Mode(FALSE, {}), size |-> 0]

World == [fids |-> fids, tree |-> tree, data |-> data, perm |-> perm,
          fault |-> fault, caps |-> caps, bound |-> bound,
          iounit |-> srvIounit, exc |-> NoExc, earg |-> "", eby |-> "",
          fid |-> [fid |-> ROOT, iounit |-> 0], rep |-> 0, calls |-> <<>>,
          self |-> NoFile, acq |-> <<>>, rel |-> <<>>, io |-> <<>>]

\* the record of a finished call: its arguments, the state it started in and
\* what it returned or raised
Outcome(R, op, path, a1, a2) ==
    [op |-> op, path |-> path, a1 |-> a1, a2 |-> a2,
     exc |-> R.exc, earg |-> R.earg, eby |-> R.eby, calls |-> R.calls,
     free0 |-> Len(fids), tree0 |-> tree, free1 |-> Len(R.fids), tree1 |-> R.tree,
     ok |-> IF R.exc = NoExc /\ op \in {"exists", "isdir", "isfile"} THEN R.rep ELSE FALSE,
     info |-> IF R.exc = NoExc /\ op = "info" THEN R.rep ELSE NoInfo,
     islist |-> R.exc = NoExc /\ op = "ls" /\ info(World, path).rep.type = "directory",
     names |-> IF R.exc # NoExc \/ op # "ls" THEN {}
               ELSE IF info(World, path).rep.type # "directory"
                    THEN {IF a1 THEN R.rep.name ELSE R.rep}
               ELSE IF a1 THEN {R.rep[i].name : i \in 1..Len(R.rep)}
               ELSE {R.rep[i] : i \in 1..Len(R.rep)},
     count |-> IF R.exc = NoExc /\ op = "ls" /\ info(World, path).rep.type = "directory"
               THEN Len(R.rep) ELSE 0,
     acq |-> R.acq, rel |-> R.rel, fids0 |-> fids, fids1 |-> R.fids,
     data0 |-> data, perm0 |-> perm, perm1 |-> R.perm, data1 |-> R.data, file |-> 0, self0 |-> NoFile, self1 |-> R.self,
     got |-> IF R.exc = NoExc /\ op \in {"read", "_read", "_fetch_range"} THEN R.rep ELSE <<>>,
     ret |-> IF R.exc = NoExc /\ op = "_write" THEN R.rep ELSE 0,
     io |-> IF op \in {"_read", "_write", "_fetch_range"} THEN R.io ELSE <<>>]

\* the state a handler leaves
Becomes(R) ==
    /\ fids' = R.fids
    /\ tree' = R.tree
    /\ data' = R.data
    /\ perm' = R.perm
    /\ caps' = R.caps
    /\ bound' = R.bound

Init ==
    /\ version \in Versions
    /\ aname = ""
    /\ cancreate = TRUE
    /\ walkStyle \in {"partial", "error"}
    /\ fids = FidCache(start, limit)
    /\ tree \in Trees
    /\ data = [p \in Paths |-> <<>>]
    /\ perm = DefaultPerm(tree)
    /\ fault = NoFault
    /\ caps = <<>>
    /\ bound = [f \in FidRange |-> <<>>]
    /\ srvIounit = 0
    /\ files = [i \in FileIds |-> NoFile]
    /\ hist = <<>>
    /\ ConcIdle

\* The caller of the path operations: one call, which it may then repeat
MayCall(op, path, a1, a2) ==
    /\ Len(hist) < MaxOps
    /\ hist # <<>> => (Last(hist).op = op /\ Last(hist).path = path
                       /\ Last(hist).a1 = a1 /\ Last(hist).a2 = a2)

Done(R, op, path, a1, a2) ==
    /\ Becomes(R)
    /\ hist' = Append(hist, Outcome(R, op, path, a1, a2))
    /\ UNCHANGED <<version, aname, walkStyle, cancreate, srvIounit, fault, files>>
    /\ UNCHANGED concVars

Info(path) ==
    /\ MayCall("info", path, FALSE, FALSE)
    /\ Done(info(World, path), "info", path, FALSE, FALSE)

Exists(path) ==
    /\ MayCall("exists", path, FALSE, FALSE)
    /\ Done(exists(World, path), "exists", path, FALSE, FALSE)

Mkdir(path, create_parents, exist_ok) ==
    /\ MayCall("mkdir", path, create_parents, exist_ok)
    /\ Done(mkdir(World, path, create_parents, exist_ok), "mkdir", path,
            create_parents, exist_ok)

Makedirs(path, exist_ok) ==
    /\ MayCall("makedirs", path, exist_ok, FALSE)
    /\ Done(makedirs(World, path, exist_ok), "makedirs", path, exist_ok, FALSE)

Ls(path, detail) ==
    /\ MayCall("ls", path, detail, FALSE)
    /\ Done(ls(World, path, detail), "ls", path, detail, FALSE)

Next ==
    \/ \E path \in InPaths : Info(path)
    \/ \E path \in InPaths : Exists(path)
    \/ \E path \in InPaths, cp \in BOOLEAN, eo \in BOOLEAN : Mkdir(path, cp, eo)
    \/ \E path \in InPaths, eo \in BOOLEAN : Makedirs(path, eo)
    \/ \E path \in InPaths, detail \in BOOLEAN : Ls(path, detail)

Spec == Init /\ [][Next]_vars

----------------------------------------------------------------------------
(* A session that works on files: open, write, read and close on the file  *)
(* objects the caller holds, over a pool of FilePool handles.               *)

FilePaths == {Str(<<"a">>, FALSE)}

\* the bytes of a write: the next n of the sequence 1, 2, 3, ...
Pattern(base, n) == [j \in 1..n |-> base + j]

On(i) == [World EXCEPT !.self = files[i]]

FileOutcome(R, op, i) ==
    [Outcome(R, op, R.self.path, FALSE, FALSE) EXCEPT !.file = i, !.self0 = files[i]]

InitFile ==
    /\ version \in Versions
    /\ aname = ""
    /\ cancreate = TRUE
    /\ walkStyle = "error"
    /\ fids = FidCache(start, start + FilePool - 1)
    /\ tree = [p \in Paths \ {<<>>} |-> "none"]
    /\ data = [p \in Paths |-> <<>>]
    /\ perm = DefaultPerm(tree)
    /\ fault = NoFault
    /\ caps = <<>>
    /\ bound = [f \in FidRange |-> <<>>]
    /\ srvIounit \in {0, 1}
    /\ files = [i \in FileIds |-> NoFile]
    /\ hist = <<>>
    /\ ConcIdle

FileDone(R, op, i, obj) ==
    /\ Becomes(R)
    /\ files' = [files EXCEPT ![i] = obj]
    /\ hist' = <<FileOutcome(R, op, i)>>
    /\ UNCHANGED <<version, aname, walkStyle, cancreate, srvIounit, fault>>
    /\ UNCHANGED concVars

\* fs.open(path, mode): a new object takes the place of a closed one
Open(i, path, mode) ==
    /\ files[i].closed
    /\ LET done(R) == FileDone(R, "open", i, IF R.exc = NoExc THEN R.self ELSE files[i])
       IN done(file_open(World, path, mode))

Write(i, n) ==
    /\ files[i] # NoFile
    /\ Len(files[i].wrote) + n <= MaxWritten
    /\ LET bytes == Pattern(Len(files[i].wrote), n)
           done(R) == FileDone(R, "write", i,
                               IF R.exc = "ValueError" THEN R.self
                               ELSE [R.self EXCEPT !.wrote = R.self.wrote \o bytes])
       IN done(file_write(On(i), bytes))

\* a read of the bytes from..end-1 the cache does not hold
Read(i, from, end) ==
    /\ files[i].mode = "rb" /\ ~files[i].closed
    /\ from < end /\ end <= files[i].size
    /\ LET done(R) == FileDone(R, "read", i, R.self)
       IN done(_fetch_range(On(i), from, end))

Close(i) ==
    /\ files[i] # NoFile
    /\ LET done(R) == FileDone(R, "close", i, R.self)
       IN done(file_close(On(i)))

\* one file object at a time, written and read in pieces of every length
NextFile ==
    \/ \E path \in FilePaths, mode \in {"rb", "wb"} : Open(1, path, mode)
    \/ \E n \in 0..MaxLen : Write(1, n)
    \/ \E from \in 0..MaxWritten, end \in 0..MaxWritten : Read(1, from, end)
    \/ Close(1)

SpecFile == InitFile /\ [][NextFile]_vars

\* several file objects, each written and read as a whole
NextPool ==
    \/ \E i \in FileIds, path \in FilePaths, mode \in {"rb", "wb"} : Open(i, path, mode)
    \/ \E i \in FileIds : Write(i, blocksize)
    \/ \E i \in FileIds : Read(i, 0, files[i].size)
    \/ \E i \in FileIds : Close(i)

\* the pool is the subject: the server's transfer unit plays no part
InitPool == InitFile /\ srvIounit = 0

SpecPool == InitPool /\ [][NextPool]_vars

----------------------------------------------------------------------------
(* One file object on a connection where requests fail: in every call of   *)
(* the file object, the n-th write or the n-th clunk it sends is answered    *)
(* with an error.                                                            *)

FileFaults == {NoFault} \cup {[c |-> c, n |-> n] : c \in {"write", "clunk"}, n \in 1..MaxNth}

InitClose ==
    /\ version \in Versions
    /\ aname = ""
    /\ cancreate = TRUE
    /\ walkStyle = "error"
    /\ fids = FidCache(start, start + ClosePool - 1)
    /\ tree = [p \in Paths \ {<<>>} |-> "none"]
    /\ data = [p \in Paths |-> <<>>]
    /\ perm = DefaultPerm(tree)
    /\ fault \in FileFaults
    /\ caps = <<>>
    /\ bound = [f \in FidRange |-> <<>>]
    /\ srvIounit = 0
    /\ files = [i \in FileIds |-> NoFile]
    /\ hist = <<>>
    /\ ConcIdle

NextClose ==
    \/ \E path \in FilePaths, mode \in {"rb", "wb"} : Open(1, path, mode)
    \/ \E n \in {1, blocksize} : Write(1, n)
    \/ Read(1, 0, files[1].size)
    \/ Close(1)

SpecClose == InitClose /\ [][NextClose]_vars

----------------------------------------------------------------------------
(* A session that copies or moves one file.  The server holds the file a   *)
(* in every content and with every permission bits, and b as nothing, as a  *)
(* file or as a directory that may hold an entry a of its own.              *)

CopyTrees == {T \in Trees : T[<<"a">>] = "file" /\ T[<<"b", "b">>] = "none"}

\* the contents of a: none, one byte, and more than one message holds
Contents == {<<>>, <<1>>, Pattern(0, msize + 1)}

\* the path strings without a trailing separator
PlainPaths == {Str(p, FALSE) : p \in Paths}

InitCopy ==
    /\ version \in Versions
    /\ aname = ""
    /\ cancreate = TRUE
    /\ walkStyle \in {"partial", "error"}
    /\ fids = FidCache(start, start + CopyPool - 1)
    /\ tree \in CopyTrees
    /\ \E c \in Contents :
          data = [p \in Paths |-> IF p = <<"a">> THEN c
                                  ELSE IF Kind(tree, p) = "file" THEN <<9>> ELSE <<>>]
    /\ \E pa \in Perms, pb \in {P755, PermBits} :
          perm = [p \in Paths |-> IF p = <<"a">> THEN pa
                                  ELSE IF p = <<"b">> /\ tree[p] = "dir" THEN pb
                                  ELSE DefaultPerm(tree)[p]]
    /\ fault = NoFault
    /\ caps = <<>>
    /\ bound = [f \in FidRange |-> <<>>]
    /\ srvIounit = 0
    /\ files = [i \in FileIds |-> NoFile]
    /\ hist = <<>>
    /\ ConcIdle

CpFile(path1, path2) ==
    /\ hist = <<>>
    /\ LET done(R) == Done(R, "cp_file", path1, path2, FALSE)
       IN done(cp_file(World, path1, path2))

Mv(path1, path2) ==
    /\ hist = <<>>
    /\ LET done(R) == Done(R, "mv", path1, path2, FALSE)
       IN done(mv(World, path1, path2))

NextCopy ==
    \/ \E path1 \in PlainPaths, path2 \in InPaths : CpFile(path1, path2)
    \/ \E path1 \in PlainPaths \ {<<>>}, path2 \in PlainPaths \ {<<>>} : Mv(path1, path2)

SpecCopy == InitCopy /\ [][NextCopy]_vars

----------------------------------------------------------------------------
(* A session that makes directories, asks for them and removes them, the   *)
(* calls in any order.                                                      *)

DirOps == {"mkdir", "makedirs", "isdir", "isfile", "exists", "rmdir"}
DirPaths == {Str(<<"a">>, TRUE), Str(<<"a", "b">>, FALSE)}

\* at the start there is nothing, or a as a file or as a directory
DirTrees == {T \in Trees : \A p \in Paths \ {<<>>, <<"a">>} : T[p] = "none"}

InitDir ==
    /\ version \in Versions
    /\ aname = ""
    /\ cancreate = TRUE
    /\ walkStyle \in {"partial", "error"}
    /\ fids = FidCache(start, start + CopyPool - 1)
    /\ tree \in DirTrees
    /\ data = [p \in Paths |-> <<>>]
    /\ perm = DefaultPerm(tree)
    /\ fault = NoFault
    /\ caps = <<>>
    /\ bound = [f \in FidRange |-> <<>>]
    /\ srvIounit = 0
    /\ files = [i \in FileIds |-> NoFile]
    /\ hist = <<>>
    /\ ConcIdle

\* one call: mkdir without create_parents, makedirs with exist_ok, or one
\* of the others
DirCall(op, path) ==
    /\ Len(hist) < MaxDirOps
    /\ LET done(R) == Done(R, op, path, op = "makedirs", FALSE)
       IN done(CASE op = "mkdir" -> mkdir(World, path, FALSE, FALSE)
                 [] op = "makedirs" -> makedirs(World, path, TRUE)
                 [] op = "isdir" -> isdir(World, path)
                 [] op = "isfile" -> isfile(World, path)
                 [] op = "exists" -> exists(World, path)
                 [] op = "rmdir" -> rmdir(World, path))

NextDir == \E op \in DirOps, path \in DirPaths : DirCall(op, path)

SpecDir == InitDir /\ [][NextDir]_vars

----------------------------------------------------------------------------
(* A session on a connection where one protocol call fails: the server, or  *)
(* the connection, answers the n-th call of one kind with an error.  The     *)
(* caller makes one call of a method that works with a handle.               *)

FaultCalls == {"walk", "create", "mkdir", "lcreate", "stat", "getattr", "open", "lopen",
               "read", "readdir", "write", "clunk", "remove", "unlinkat"}
Faults == {NoFault} \cup {[c |-> c, n |-> n] : c \in FaultCalls, n \in 1..MaxNth}

HandleOps == {"_mknod", "_info", "_unlink", "_lsdir", "_readdir", "open_release"}

\* the file a of one byte, and the directory b with a file a of its own
FaultTree == [p \in Paths \ {<<>>} |->
                IF p = <<"a">> \/ p = <<"b", "a">> THEN "file"
                ELSE IF p = <<"b">> THEN "dir" ELSE "none"]

\* no attach name, or the one a diod server is given
Anames == {"", "/tmp"}

InitFault ==
    /\ version \in Versions
    /\ aname \in Anames
    /\ cancreate = TRUE
    /\ walkStyle \in {"partial", "error"}
    /\ fids = FidCache(start, start + CopyPool - 1)
    /\ tree = FaultTree
    /\ data = [p \in Paths |-> IF Kind(tree, p) = "file" THEN <<1>> ELSE <<>>]
    /\ perm = DefaultPerm(tree)
    /\ fault \in Faults
    /\ caps = <<>>
    /\ bound = [f \in FidRange |-> <<>>]
    /\ srvIounit = 0
    /\ files = [i \in FileIds |-> NoFile]
    /\ hist = <<>>
    /\ ConcIdle

\* f = self._open_fid(path, mode), then self._release_fid(f): what a file
\* object does with its handle between its first transfer and close
open_release(W, path, wr) ==
    LET opened(O) == IF O.exc # NoExc THEN O ELSE _release_fid(O, O.rep)
    IN opened(_open_fid(W, path, wr))

\* one call of a method that takes a handle; flag is the directory bit of
\* _mknod's mode and the write mode of _open_fid
HandleCall(op, path, flag) ==
    /\ hist = <<>>
    /\ op = "_lsdir" => version # "9P2000.L"
    /\ op = "_readdir" => version = "9P2000.L"
    /\ op \notin {"_mknod", "open_release"} => ~flag
    /\ LET done(R) == Done(R, op, path, flag, FALSE)
       IN done(CASE op = "_mknod" -> _mknod(World, path, Mode(flag, P755))
                 [] op = "_info" -> _info(World, path)
                 [] op = "_unlink" -> _unlink(World, path)
                 [] op = "_lsdir" -> _lsdir(World, path)
                 [] op = "_readdir" -> _readdir(World, path)
                 [] op = "open_release" -> open_release(World, path, flag))

\* one call of a method that asks about a path
QueryOps == {"info", "exists", "isdir", "isfile"}

QueryCall(op, path) ==
    /\ hist = <<>>
    /\ LET done(R) == Done(R, op, path, FALSE, FALSE)
       IN done(CASE op = "info" -> info(World, path)
                 [] op = "exists" -> exists(World, path)
                 [] op = "isdir" -> isdir(World, path)
                 [] op = "isfile" -> isfile(World, path))

NextFault ==
    \/ \E op \in HandleOps, path \in InPaths, flag \in BOOLEAN : HandleCall(op, path, flag)
    \/ \E op \in QueryOps, path \in InPaths : QueryCall(op, path)
    \/ \E path1 \in PlainPaths, path2 \in InPaths : CpFile(path1, path2)

SpecFault == InitFault /\ [][NextFault]_vars

----------------------------------------------------------------------------
(* A LocalFs server started without -w (cancreate = 0), and a client that  *)
(* sends it requests of its own choice on one fid.                          *)

RoFids == {start}
RoVersions == {"9P2000", "9P2000.u"}

InitReadOnly ==
    /\ version \in RoVersions
    /\ aname = ""
    /\ walkStyle = "error"
    /\ cancreate = FALSE
    /\ fids = FidCache(start, start)
    /\ tree = FaultTree
    /\ data = [p \in Paths |-> IF Kind(tree, p) = "file" THEN <<1>> ELSE <<>>]
    /\ perm = DefaultPerm(tree)
    /\ fault = NoFault
    /\ caps = <<>>
    /\ bound = [f \in FidRange |-> <<>>]
    /\ srvIounit = 0
    /\ files = [i \in FileIds |-> NoFile]
    /\ hist = <<>>
    /\ ConcIdle

\* the server has answered the request: mode is the write bit of an open,
\* the directory bit of a create, the chmod of a wstat
Served(R, op, fid, mode, name) ==
    /\ Becomes(R)
    /\ hist' = <<Outcome(R, op, "", [fid |-> fid, mode |-> mode, name |-> name],
                         IsBound(bound, fid))>>
    /\ UNCHANGED <<version, aname, walkStyle, cancreate, srvIounit, fault, files>>
    /\ UNCHANGED concVars

Twalk(fid, wname) == Served(srv_walk(World, fid, wname), "walk", fid, FALSE, "")

Topen(fid, wr, trunc) == Served(srv_open(World, fid, wr, trunc), "open", fid, wr, "")

Tcreate(fid, name, dmdir) ==
    Served(srv_create(World, fid, name, dmdir, P755), "create", fid, dmdir, name)

Tremove(fid) == Served(srv_remove(World, fid), "remove", fid, FALSE, "")

Twrite(fid) == Served(srv_write(World, fid, 0, <<2>>), "write", fid, FALSE, "")

Tread(fid) == Served(srv_read(World, fid, 0, 1), "read", fid, FALSE, "")

Twstat(fid, chmod, name) ==
    /\ IsBound(bound, fid)
    /\ chmod \/ name # ""
    /\ name # "" => BoundPath(bound, fid) # <<>>
    /\ Served(srv_wstat(World, fid, chmod, {"w", "x"}, name), "wstat", fid, chmod, name)

Tclunk(fid) == Served(srv_clunk(World, fid), "clunk", fid, FALSE, "")

NextReadOnly ==
    \/ \E fid \in RoFids, wname \in Paths : Twalk(fid, wname)
    \/ \E fid \in RoFids, wr \in BOOLEAN, trunc \in BOOLEAN : Topen(fid, wr, trunc)
    \/ \E fid \in RoFids, name \in Names, dmdir \in BOOLEAN : Tcreate(fid, name, dmdir)
    \/ \E fid \in RoFids : Tremove(fid)
    \/ \E fid \in RoFids : Twrite(fid)
    \/ \E fid \in RoFids : Tread(fid)
    \/ \E fid \in RoFids, chmod \in BOOLEAN, name \in Names \cup {""} : Twstat(fid, chmod, name)
    \/ \E fid \in RoFids : Tclunk(fid)

SpecReadOnly == InitReadOnly /\ [][NextReadOnly]_vars

----------------------------------------------------------------------------
(* A caller that opens a handle on the file a and makes one transfer     *)
(* through it, against a server that may answer requests short.           *)

\* what the server makes of its next replies, request by request
CapSeqs == UNION {[1..n -> 1..MaxShort] : n \in 0..MaxCaps}

InitIO ==
    /\ version \in Versions
    /\ aname = ""
    /\ cancreate = TRUE
    /\ walkStyle = "error"
    /\ fids = FidCache(start, start + FilePool - 1)
    /\ tree = [p \in Paths \ {<<>>} |-> IF p = <<"a">> THEN "file" ELSE "none"]
    /\ \E n \in 0..MaxLen :
           data = [p \in Paths |-> IF p = <<"a">> THEN Pattern(0, n) ELSE <<>>]
    /\ perm = DefaultPerm(tree)
    /\ fault = NoFault
    /\ caps \in CapSeqs
    /\ bound = [f \in FidRange |-> <<>>]
    /\ srvIounit \in 0..MaxIounit
    /\ files = [i \in FileIds |-> NoFile]
    /\ hist = <<>>
    /\ ConcIdle

\* f = self._open_fid(path, os.O_RDONLY), self._read(size, offset, f), then
\* self._release_fid(f); the bytes read are what is returned
read_at(W, path, size, offset) ==
    LET released(R, bytes) == IF R.exc # NoExc THEN R ELSE Reply(R, bytes)
        read(D, f) == IF D.exc # NoExc THEN D ELSE released(_release_fid(D, f), D.rep)
        opened(O) == IF O.exc # NoExc THEN O ELSE read(_read(O, size, offset, O.rep), O.rep)
    IN opened(_open_fid(W, path, FALSE))

\* f = self._open_fid(path, os.O_WRONLY | os.O_TRUNC), self._write(buf,
\* offset, f), then self._release_fid(f); the size written is returned
write_at(W, path, buf, offset) ==
    LET released(R, size) == IF R.exc # NoExc THEN R ELSE Reply(R, size)
        written(D, f) == IF D.exc # NoExc THEN D ELSE released(_release_fid(D, f), D.rep)
        opened(O) == IF O.exc # NoExc THEN O ELSE written(_write(O, buf, offset, O.rep), O.rep)
    IN opened(_open_fid(W, path, TRUE))

ReadAt(size, offset) ==
    /\ hist = <<>>
    /\ LET done(R) == Done(R, "_read", Str(<<"a">>, FALSE), size, offset)
       IN done(read_at(World, Str(<<"a">>, FALSE), size, offset))

WriteAt(buf, offset) ==
    /\ hist = <<>>
    /\ LET done(R) == Done(R, "_write", Str(<<"a">>, FALSE), buf, offset)
       IN done(write_at(World, Str(<<"a">>, FALSE), buf, offset))

NextIO ==
    \/ \E size \in 0..(MaxLen + 1), offset \in 0..(MaxLen + 1) : ReadAt(size, offset)
    \/ \E n \in 0..MaxLen, offset \in 0..MaxShort : WriteAt(Pattern(10, n), offset)

SpecIO == InitIO /\ [][NextIO]_vars

\* f = fs.open(path, 'rb'), then f._fetch_range(start, end): the first range
\* read of a file object
fetch_range_at(W, path, from, end) ==
    LET made(O) == IF O.exc # NoExc THEN O ELSE _fetch_range(O, from, end)
    IN made(file_open(W, path, "rb"))

FetchRange(from, end) ==
    /\ hist = <<>>
    /\ from <= end
    /\ LET done(R) == Done(R, "_fetch_range", Str(<<"a">>, FALSE), from, end)
       IN done(fetch_range_at(World, Str(<<"a">>, FALSE), from, end))

\* a range read is asked of a file of any length, shorter than the range's
\* end as well
NextRange == \E from \in 0..(MaxLen + 1), end \in 0..(MaxLen + 1) : FetchRange(from, end)

SpecRange == InitIO /\ [][NextRange]_vars

----------------------------------------------------------------------------
(* Threads that share one session.  A wrapped call is taken statement by    *)
(* statement: the fid is acquired, the lock is taken, the body sends its    *)
(* protocol calls one at a time, the lock is given back.  A raw transfer    *)
(* on an open fid takes no lock.                                            *)

RAWFID == MIN_FID           \* the fid of a file that was opened before
\* the wrapped calls the threads make
Jobs == {[unit |-> "_info", path |-> Str(<<"a">>, FALSE)],
         [unit |-> "_info", path |-> Str(<<"b">>, FALSE)],
         [unit |-> "_mknod", path |-> Str(<<"b">>, FALSE)]}

\* no lock at all: whoever asks goes on
rlock_absent(owner, t) == TRUE

\* threading.RLock: free, or held by the thread that asks
rlock_free(owner, t) == owner = 0 \/ owner = t

\* statement k of the body of a wrapped method, k = 1..3
unit_call(W, unit, tfid, path, k) ==
    LET parts == PathParts(path)
        found(W1) ==
            IF unit = "_info" /\ W1.exc = NoExc /\ W1.rep # Len(parts)
            THEN Raise(W1, "P9FileNotFound", "") ELSE W1
    IN IF k = 1
       THEN found(client_walk(W, tfid, IF unit = "_info" THEN parts ELSE PathParent(parts)))
       ELSE IF k = 2
       THEN IF unit = "_info"
            THEN IF version = "9P2000.L" THEN client_getattr(W, tfid)
                 ELSE client_stat(W, tfid)
            ELSE IF version = "9P2000.L" THEN client_lcreate(W, tfid, Last(parts), P644)
                 ELSE client_create(W, tfid, Last(parts), FALSE, P644)
       ELSE client_clunk(W, tfid)

InitConc ==
    /\ version \in Versions
    /\ aname = ""
    /\ cancreate = TRUE
    /\ walkStyle \in {"partial", "error"}
    /\ fids = Tail(FidCache(start, limit))
    /\ tree = [p \in Paths \ {<<>>} |-> IF p = <<"a">> THEN "file" ELSE "none"]
    /\ data = [p \in Paths |-> <<>>]
    /\ perm = DefaultPerm(tree)
    /\ fault = NoFault
    /\ caps = <<>>
    /\ bound = [f \in FidRange |-> IF f = RAWFID THEN Binding(<<"a">>, "w") ELSE <<>>]
    /\ srvIounit = 0
    /\ files = [i \in FileIds |-> NoFile]
    /\ hist = <<>>
    /\ ConcIdle

ConcDone(R) ==
    /\ Becomes(R)
    /\ wire' = wire \o [i \in 1..Len(R.calls) |->
                          [t |-> R.self.size, serial |-> R.self.offset, c |-> R.calls[i].c]]
    /\ UNCHANGED <<version, aname, walkStyle, cancreate, srvIounit, fault, files, hist>>

\* the caller's mark on the calls it sends: thread and wrapped call
By(t, serial) == [World EXCEPT !.self = [NoFile EXCEPT !.size = t, !.offset = serial]]

\* wrapped: tfid = self.fids.acquire()
Acquire(t, unit, path) ==
    /\ pc[t].at = "idle"
    /\ nunits < MaxUnits
    /\ LET done(R) ==
               /\ ConcDone(R)
               /\ pc' = [pc EXCEPT ![t] = IF R.exc # NoExc THEN Idle
                                           ELSE [at |-> "acquired", unit |-> unit,
                                                 path |-> path, tfid |-> R.fid.fid,
                                                 k |-> 1, serial |-> nunits + 1]]
       IN done(acquire(By(t, nunits + 1)))
    /\ nunits' = nunits + 1
    /\ UNCHANGED lockOwner

\* wrapped: with self._rlock
Lock(t) ==
    /\ pc[t].at = "acquired"
    /\ rlock_free(lockOwner, t)
    /\ lockOwner' = t
    /\ pc' = [pc EXCEPT ![t].at = "inside"]
    /\ UNCHANGED <<version, aname, walkStyle, cancreate, fids, tree, data, perm, fault, caps,
                   bound, srvIounit, files, hist, wire, nunits>>

\* the body: its next statement; an exception or the last statement ends it
Step(t) ==
    /\ pc[t].at = "inside"
    /\ LET done(R) ==
               /\ ConcDone(R)
               /\ pc' = [pc EXCEPT ![t].at = IF R.exc # NoExc \/ pc[t].k = 3
                                              THEN "leaving" ELSE "inside",
                                    ![t].k = pc[t].k + 1]
       IN done(unit_call(By(t, pc[t].serial), pc[t].unit, pc[t].tfid, pc[t].path, pc[t].k))
    /\ UNCHANGED <<lockOwner, nunits>>

\* wrapped: the end of the with block
Unlock(t) ==
    /\ pc[t].at = "leaving"
    /\ lockOwner' = IF lockOwner = t THEN 0 ELSE lockOwner
    /\ pc' = [pc EXCEPT ![t] = Idle]
    /\ UNCHANGED <<version, aname, walkStyle, cancreate, fids, tree, data, perm, fault, caps,
                   bound, srvIounit, files, hist, wire, nunits>>

RawCount == Cardinality({i \in 1..Len(wire) : wire[i].serial = 0})

\* P9FileSystem._write on an open fid: one Twrite, outside every lock
RawWrite(t) ==
    /\ pc[t].at = "idle"
    /\ RawCount < MaxRaw
    /\ ConcDone(client_write(By(t, 0), RAWFID, 0, <<t>>))
    /\ UNCHANGED <<pc, lockOwner, nunits>>

NextConc ==
    \/ \E t \in Threads, job \in Jobs : Acquire(t, job.unit, job.path)
    \/ \E t \in Threads : Lock(t)
    \/ \E t \in Threads : Step(t)
    \/ \E t \in Threads : Unlock(t)
    \/ \E t \in Threads : RawWrite(t)

SpecConc == InitConc /\ [][NextConc]_vars

\* The same threads with FidCache.acquire taken statement by statement: the
\* test of the free list's length, then the pop.  The wrapper calls acquire
\* before it takes the lock, so another thread's statements may lie between
\* the two.  The pool has one or two values left.

InitRace ==
    /\ version \in Versions
    /\ aname = ""
    /\ cancreate = TRUE
    /\ walkStyle \in {"partial", "error"}
    /\ \E n \in 1..2 : fids = FidCache(limit - n + 1, limit)
    /\ tree = [p \in Paths \ {<<>>} |-> IF p = <<"a">> THEN "file" ELSE "none"]
    /\ data = [p \in Paths |-> <<>>]
    /\ perm = DefaultPerm(tree)
    /\ fault = NoFault
    /\ caps = <<>>
    /\ bound = [f \in FidRange |-> <<>>]
    /\ srvIounit = 0
    /\ files = [i \in FileIds |-> NoFile]
    /\ hist = <<>>
    /\ ConcIdle

\* what a thread's acquire raised
AcquireRaised(t, exc) == [op |-> "acquire", thread |-> t, exc |-> exc]

\* acquire: if len(self.fids) < 1: raise NoFidError()
AcquireCheck(t, unit, path) ==
    /\ pc[t].at = "idle"
    /\ nunits < MaxUnits
    /\ nunits' = nunits + 1
    /\ IF Len(fids) < 1
       THEN /\ hist' = Append(hist, AcquireRaised(t, "NoFidError"))
            /\ pc' = pc
       ELSE /\ hist' = hist
            /\ pc' = [pc EXCEPT ![t] = [at |-> "checked", unit |-> unit, path |-> path,
                                         tfid |-> -1, k |-> 1, serial |-> nunits + 1]]
    /\ UNCHANGED <<version, aname, walkStyle, cancreate, fids, tree, data, perm, fault, caps,
                   bound, srvIounit, files, lockOwner, wire>>

\* acquire: return Fid(self.fids.pop(0), self.iounit); list.pop raises
\* IndexError on an empty list
AcquirePop(t) ==
    /\ pc[t].at = "checked"
    /\ IF fids = <<>>
       THEN /\ hist' = Append(hist, AcquireRaised(t, "IndexError"))
            /\ pc' = [pc EXCEPT ![t] = Idle]
            /\ fids' = fids
       ELSE /\ hist' = hist
            /\ pc' = [pc EXCEPT ![t].at = "acquired", ![t].tfid = Head(fids)]
            /\ fids' = Tail(fids)
    /\ UNCHANGED <<version, aname, walkStyle, cancreate, tree, data, perm, fault, caps,
                   bound, srvIounit, files, lockOwner, wire, nunits>>

NextRace ==
    \/ \E t \in Threads, job \in Jobs : AcquireCheck(t, job.unit, job.path)
    \/ \E t \in Threads : AcquirePop(t)
    \/ \E t \in Threads : Lock(t)
    \/ \E t \in Threads : Step(t)
    \/ \E t \in Threads : Unlock(t)

SpecRace == InitRace /\ [][NextRace]_vars

----------------------------------------------------------------------------
(* Two threads of one session, each calling makedirs(P, exist_ok=True) on  *)
(* a server that has none of the components of P.  exists, isdir and mkdir  *)
(* are wrapped calls of their own: each runs under the session's lock from  *)
(* its first request to its last, and a thread holds no lock between one    *)
(* and the next.                                                            *)

MakedirsPaths == {Str(<<"a">>, FALSE), Str(<<"a", "b">>, FALSE)}

InitMakedirs ==
    /\ version \in Versions
    /\ aname = ""
    /\ walkStyle \in {"partial", "error"}
    /\ cancreate = TRUE
    /\ fids = FidCache(start, start + CopyPool - 1)
    /\ tree = [p \in Paths \ {<<>>} |-> "none"]
    /\ data = [p \in Paths |-> <<>>]
    /\ perm = DefaultPerm(tree)
    /\ fault = NoFault
    /\ caps = <<>>
    /\ bound = [f \in FidRange |-> <<>>]
    /\ srvIounit = 0
    /\ files = [i \in FileIds |-> NoFile]
    /\ hist = <<>>
    /\ pc = [t \in Threads |-> [at |-> "idle", path |-> "", items |-> <<>>]]
    /\ lockOwner = 0
    /\ wire = <<>>
    /\ nunits = 0

\* makedirs has returned or raised in thread t, leaving the state R
MakedirsReturned(t, R) ==
    [op |-> "makedirs", thread |-> t, path |-> pc[t].path, exc |-> R.exc,
     earg |-> R.earg, tree1 |-> R.tree]

\* thread t goes on to `at` with the items left, or leaves makedirs
MakedirsGoes(t, R, at, items) ==
    /\ Becomes(R)
    /\ IF R.exc # NoExc \/ items = <<>>
       THEN /\ hist' = Append(hist, MakedirsReturned(t, R))
            /\ pc' = [pc EXCEPT ![t].at = "returned", ![t].items = <<>>]
       ELSE /\ hist' = hist
            /\ pc' = [pc EXCEPT ![t].at = at, ![t].items = items]
    /\ UNCHANGED <<version, aname, walkStyle, cancreate, srvIounit, fault, files,
                   lockOwner, wire, nunits>>

\* makedirs(path, exist_ok=True) is called in thread t
MakedirsCall(t, path) ==
    /\ pc[t].at = "idle"
    /\ \A u \in Threads : pc[u].at # "idle" => pc[u].path = path
    /\ pc' = [pc EXCEPT ![t] = [at |-> "exists", path |-> path,
                                items |-> makedirs_items(path)]]
    /\ UNCHANGED <<version, aname, walkStyle, cancreate, fids, tree, data, perm, fault,
                   caps, bound, srvIounit, files, hist, lockOwner, wire, nunits>>

\* if exist_ok and self.exists(item)
MakedirsExists(t) ==
    /\ pc[t].at = "exists"
    /\ LET done(R) == MakedirsGoes(t, R, IF R.exc = NoExc /\ R.rep THEN "isdir" ELSE "mkdir",
                                   pc[t].items)
       IN done(exists(World, Head(pc[t].items)))

\* if not self.isdir(item): raise P9Error; continue
MakedirsIsdir(t) ==
    /\ pc[t].at = "isdir"
    /\ LET done(R) == MakedirsGoes(t, IF R.exc = NoExc /\ ~R.rep
                                      THEN Raise(R, "P9Error", "exists and not a directory")
                                      ELSE R, "exists", Tail(pc[t].items))
       IN done(isdir(World, Head(pc[t].items)))

\* self.mkdir(item, create_parents=False)
MakedirsMkdir(t) ==
    /\ pc[t].at = "mkdir"
    /\ LET done(R) == MakedirsGoes(t, R, "exists", Tail(pc[t].items))
       IN done(mkdir(World, Head(pc[t].items), FALSE, FALSE))

NextMakedirs ==
    \/ \E t \in Threads, path \in MakedirsPaths : MakedirsCall(t, path)
    \/ \E t \in Threads : MakedirsExists(t)
    \/ \E t \in Threads : MakedirsIsdir(t)
    \/ \E t \in Threads : MakedirsMkdir(t)

SpecMakedirs == InitMakedirs /\ [][NextMakedirs]_vars

----------------------------------------------------------------------------
(* Properties *)

Parts(h) == PathParts(h.path)
Prefix(h, k) == SubSeq(Parts(h), 1, k)
Absent(h) == Kind(h.tree0, Parts(h)) = "none"
Calls == {hist[i] : i \in 1..Len(hist)}

\* C1: after any sequence of calls that have all returned, with no file
\* open, no fid is outstanding: the pool's free count is what it was before
C1_NoFidOutstanding == \A h \in Calls : h.free1 = h.free0

Range(s) == {s[i] : i \in DOMAIN s}

\* C2: when a file opened for writing is closed, the server holds of it
\* exactly the bytes that were written, in order
C2_WriteRoundTrip ==
    \A h \in Calls :
        (h.op = "close" /\ h.exc = NoExc /\ h.self0.mode = "wb" /\ ~h.self0.closed)
            => h.data1[PathParts(h.path)] = h.self1.wrote

\* the file objects that hold an open fid
Live == {i \in FileIds : ~files[i].closed /\ files[i]._f # NoFid}

\* C4: the free list holds no value twice and no value of a live handle,
\* and no two live handles hold the same value
C4_HandlesUnique ==
    /\ \A i, j \in DOMAIN fids : i # j => fids[i] # fids[j]
    /\ \A i \in Live : files[i]._f.fid \notin Range(fids)
    /\ \A i, j \in Live : i # j => files[i]._f.fid # files[j]._f.fid

\* the acquisitions of the calls made
Acquisitions == UNION {Range(h.acq) : h \in Calls}

\* C5 as stated: acquire returns the lowest free value
C5_AcquireLowest ==
    \A e \in Acquisitions :
        e.free # <<>> => \A v \in Range(e.free) : e.fid <= v

\* C5, amended: acquire returns the value at the head of the free list, which
\* release extends at its end, paired with the default transfer unit, and
\* takes it off the list; it raises NoFidError exactly when the list is empty
C5_AcquireHead ==
    /\ \A e \in Acquisitions :
        /\ e.free = <<>> <=> e.fid = -1
        /\ e.free # <<>> => /\ e.fid = Head(e.free)
                            /\ e.iounit = IOUNIT
                            /\ e.after = Tail(e.free)
    /\ \A h \in Calls :
        /\ h.acq # <<>> =>
            /\ h.acq[1].free = h.fids0
            /\ h.fids0 # <<>> => h.acq[1].fid = Head(h.fids0)
            /\ h.fids0 = <<>> => h.exc = "NoFidError" /\ h.fids1 = <<>>
        /\ h.exc = "NoFidError" => \E i \in DOMAIN h.acq : h.acq[i].free = <<>>
        /\ Range(h.fids1) \cap {h.acq[i].fid : i \in DOMAIN h.acq}
                \subseteq Range(h.rel)

\* an acquisition from a free list whose head is not its lowest value
C5_Witness ==
    \E e \in Acquisitions :
        e.free # <<>> /\ e.fid # -1 /\ \E v \in Range(e.free) : v < e.fid

InUnit == {t \in Threads : pc[t].at \in {"inside", "leaving"}}

\* C6: at most one thread is inside a wrapped call, and on the connection no
\* call of another thread's wrapped call lies between two calls of one
C6_UnitsExclusive ==
    /\ Cardinality(InUnit) <= 1
    /\ \A i \in DOMAIN wire :
        wire[i].serial # 0 =>
            \A j \in (i + 1)..Len(wire) :
                (wire[j].serial # 0 /\ wire[j].serial # wire[i].serial) =>
                    \A k \in (j + 1)..Len(wire) : wire[k].serial # wire[i].serial

\* a thread has sent the first call of its wrapped call while another, its
\* fid acquired, waits for the lock
C6_Witness ==
    \E t1, t2 \in Threads :
        /\ pc[t1].at = "inside" /\ pc[t1].k = 2
        /\ pc[t2].at = "acquired"

\* C3: for every path absent from the server, exists returns False and info
\* raises P9FileNotFound; a path that is present exists.  The decision is the
\* comparison of the walk reply's qid count with the number of components:
\* where the server answers an incomplete walk without an error, the walk is
\* the only request made and the outcome is still not-found.
C3_AbsentIsNotFound ==
    \A h \in Calls :
        /\ (h.op = "info" /\ Absent(h)) => h.exc = "P9FileNotFound"
        /\ (h.op = "info" /\ ~Absent(h)) => h.exc = NoExc
        /\ h.op = "exists" => (h.exc = NoExc /\ h.ok = ~Absent(h))
        /\ (h.op \in {"info", "exists"} /\ Absent(h) /\ walkStyle = "partial")
              => (Len(h.calls) = 1 /\ h.calls[1].c = "walk")

\* an incomplete walk answered without an error, one component resolved
C3_Witness ==
    \E h \in Calls :
        /\ h.op = "exists" /\ Absent(h) /\ walkStyle = "partial" /\ ~h.ok
        /\ Len(Parts(h)) = 2 /\ Kind(h.tree0, Prefix(h, 1)) = "dir"

ChainIsDirs(h) == \A k \in 1..Len(Parts(h)) : Kind(h.tree0, Prefix(h, k)) \in {"none", "dir"}
OnChain(h, p) == \E k \in 1..Len(Parts(h)) : p = Prefix(h, k)

RecursiveCreate(h) ==
    \/ h.op = "makedirs" /\ ~h.a1
    \/ h.op = "mkdir" /\ h.a1 /\ ~h.a2

\* C8: without exist_ok, makedirs(P) and mkdir(P) with create_parents raise
\* nothing when P is absent and its parents exist as directories, and create P
C8_ExistingParentsAreNoError ==
    \A h \in Calls :
        (/\ RecursiveCreate(h)
         /\ Parts(h) # <<>> /\ Absent(h)
         /\ \A k \in 1..(Len(Parts(h)) - 1) : Kind(h.tree0, Prefix(h, k)) = "dir")
        => (h.exc = NoExc /\ Kind(h.tree1, Parts(h)) = "dir")

\* C9: makedirs(P) raises the not-a-directory error (P9Error) whenever a
\* component of P's chain exists and is not a directory, whatever exist_ok
\* is, and creates nothing
C9_NotADirectory ==
    \A h \in Calls :
        (h.op = "makedirs" /\ \E k \in 1..Len(Parts(h)) : Kind(h.tree0, Prefix(h, k)) = "file")
        => (h.exc = "P9Error" /\ h.tree1 = h.tree0)

\* the name ls gives the child c of the directory a call lists
ChildName(h, c) ==
    IF Kind(h.tree0, Append(Parts(h), c)) = "dir"
    THEN Append(Join(Append(Parts(h), c)), "/") ELSE Join(Append(Parts(h), c))

\* C10: ls of a directory D returns exactly D's immediate children, each
\* once, named D/child with a trailing separator on directories only, with
\* and without detail and under every protocol variant
C10_LsListsChildren ==
    \A h \in Calls :
        (h.op = "ls" /\ Kind(h.tree0, Parts(h)) = "dir") =>
            LET cs == {c \in Names : Kind(h.tree0, Append(Parts(h), c)) # "none"}
            IN /\ h.exc = NoExc /\ h.islist
               /\ h.names = {ChildName(h, c) : c \in cs}
               /\ h.count = Cardinality(cs)

\* the server path of the second path argument of a copy or a move
Parts2(h) == PathParts(h.a1)

\* the file a copy of x into the directory d makes
Target(h) == Append(Parts2(h), Last(Parts(h)))

\* C11: cp_file(x, 'd/'), for an existing file x and an existing directory
\* d, raises nothing, leaves d/<name of x> a file with the content and the
\* permission bits of x, and leaves x as it was; cp_file(x, y) for a y that
\* does not exist in an existing directory creates y with the permission
\* bits and the content of x
C11_CopyIntoDirectory ==
    \A h \in Calls :
        (h.op = "cp_file" /\ Kind(h.tree0, Parts(h)) = "file") =>
            /\ (endswith_sep(h.a1) /\ Kind(h.tree0, Parts2(h)) = "dir"
                    /\ Target(h) \in Paths) =>
                  /\ h.exc = NoExc
                  /\ Kind(h.tree1, Target(h)) = "file"
                  /\ h.data1[Target(h)] = h.data0[Parts(h)]
                  /\ h.perm1[Target(h)] = h.perm0[Parts(h)]
                  /\ Kind(h.tree1, Parts(h)) = "file"
                  /\ h.data1[Parts(h)] = h.data0[Parts(h)]
                  /\ h.perm1[Parts(h)] = h.perm0[Parts(h)]
            /\ (Parts2(h) \in Paths /\ Kind(h.tree0, Parts2(h)) = "none"
                    /\ Kind(h.tree0, Front(Parts2(h))) = "dir") =>
                  /\ h.exc = NoExc
                  /\ Kind(h.tree1, Parts2(h)) = "file"
                  /\ h.data1[Parts2(h)] = h.data0[Parts(h)]
                  /\ h.perm1[Parts2(h)] = h.perm0[Parts(h)]

\* C12: mv(x, y) of a file x that returns, x # y, leaves exists(x) false and
\* exists(y) true with info(y).size the size x had; an mv that raises leaves
\* x in place, as it was; mv(x, x) sends no protocol call and changes nothing
C12_MoveIsCopyThenRemove ==
    hist # <<>> =>
        LET h == Last(hist)
        IN (h.op = "mv" /\ Kind(h.tree0, Parts(h)) = "file") =>
            /\ h.path = h.a1 =>
                  /\ h.calls = <<>> /\ h.exc = NoExc
                  /\ h.tree1 = h.tree0 /\ h.data1 = h.data0 /\ h.fids1 = h.fids0
            /\ (h.path # h.a1 /\ h.exc = NoExc) =>
                  /\ ~exists(World, h.path).rep
                  /\ exists(World, h.a1).rep
                  /\ info(World, h.a1).rep.size = Len(h.data0[Parts(h)])
            /\ h.exc # NoExc =>
                  /\ Kind(h.tree1, Parts(h)) = "file"
                  /\ h.data1[Parts(h)] = h.data0[Parts(h)]

\* the call i made the directory its path names
Made(i) == hist[i].op \in {"mkdir", "makedirs"} /\ hist[i].exc = NoExc
\* the call i removed it
Removed(i) == hist[i].op = "rmdir" /\ hist[i].exc = NoExc
SamePath(i, j) == Parts(hist[i]) = Parts(hist[j])

\* C13: a call of isdir(D) made after a mkdir or makedirs of D has returned,
\* with no rmdir of D returned in between, returns True, and isfile(D) there
\* returns False; exists(D) after an rmdir of D has returned, with no call
\* in between that left a D on the server, returns False; isdir and isfile of one path, one call
\* after the other, are not both True
C13_DirectoryVisibility ==
    \A i \in DOMAIN hist :
        /\ \A j \in 1..(i - 1) :
              (Made(j) /\ SamePath(i, j)
                 /\ \A k \in (j + 1)..(i - 1) : ~(Removed(k) /\ SamePath(k, j))) =>
                    /\ hist[i].op = "isdir" => (hist[i].exc = NoExc /\ hist[i].ok)
                    /\ hist[i].op = "isfile" => (hist[i].exc = NoExc /\ ~hist[i].ok)
        /\ \A j \in 1..(i - 1) :
              (Removed(j) /\ SamePath(i, j) /\ hist[i].op = "exists"
                 /\ \A k \in (j + 1)..(i - 1) :
                        Kind(hist[k].tree1, Parts(hist[j])) = "none") =>
                    (hist[i].exc = NoExc /\ ~hist[i].ok)
        /\ (i > 1 /\ {hist[i - 1].op, hist[i].op} = {"isdir", "isfile"}
              /\ SamePath(i, i - 1)) => ~(hist[i - 1].ok /\ hist[i].ok)

\* a directory of two components was made, seen as a directory, and removed
C13_Witness ==
    /\ Len(hist) = 3 /\ Made(1) /\ Len(Parts(hist[1])) = 2
    /\ hist[2].op = "isdir" /\ SamePath(1, 2) /\ hist[2].ok
    /\ Removed(3) /\ SamePath(1, 3) /\ Kind(tree, Parts(hist[1])) = "none"

\* the canonical name of the path a call names, as the server holds it
Canonical(h) == Str(Parts(h), Kind(h.tree0, Parts(h)) = "dir")

\* C14: info(P) of an existing P, given with or without a trailing separator
\* and of one component or more, returns as name P without a trailing
\* separator for a file and with exactly one for a directory, and the type
\* that goes with it, whatever the protocol variant
C14_CanonicalName ==
    \A h \in Calls :
        (h.op = "info" /\ ~Absent(h) /\ Parts(h) # <<>>) =>
            /\ h.exc = NoExc
            /\ h.info.name = Canonical(h)
            /\ h.info.type = IF Kind(h.tree0, Parts(h)) = "dir" THEN "directory" ELSE "file"

\* C15: no call ends with an exception that a clunk raised: a failure of
\* the release of a handle is not raised to the caller, and does not take
\* the place of the error the operation failed with
C15_ReleaseFailuresSwallowed ==
    \A h \in Calls : h.exc # NoExc => h.eby # "clunk"

\* the handle the decorator with_fid handed to the call
Transient(h) == h.acq[1].fid

WalkingOps == {"_mknod", "_info", "_unlink", "_lsdir", "_readdir"}

\* C16: a path operation that walked its transient handle and went on to a
\* further call has sent a clunk of that handle (a remove clunks its handle
\* too) when it exits, with or without an error; and unless a clunk itself
\* failed, no handle is bound on the server after the operation
C16_ReleaseOnEveryExit ==
    \A h \in Calls :
        h.op \in WalkingOps =>
            /\ Len(h.calls) >= 2 =>
                  \E k \in 1..Len(h.calls) :
                      h.calls[k].c \in {"clunk", "remove"} /\ h.calls[k].fid = Transient(h)
            /\ fault.c # "clunk" => \A f \in FidRange : bound[f] = <<>>

\* the call at position k of h is the one whose error h ended with
Failed(h, k) ==
    /\ h.exc # NoExc
    /\ h.eby = h.calls[k].c
    /\ \A j \in (k + 1)..Len(h.calls) : h.calls[j].c # h.calls[k].c

\* the handles that h opened on the server
Opened(h) ==
    {h.calls[k].fid : k \in {j \in 1..Len(h.calls) :
                                 h.calls[j].c \in {"open", "lopen"} /\ ~Failed(h, j)}}

\* C17: when cp_file exits, with or without an error, and no clunk has
\* failed, every handle it opened has been clunked, is back in the pool
\* and is bound to nothing on the server
C17_CopyReleasesBothHandles ==
    \A h \in Calls :
        (h.op = "cp_file" /\ fault.c # "clunk") =>
            \A f \in Opened(h) :
                /\ \E k \in 1..Len(h.calls) : h.calls[k].c = "clunk" /\ h.calls[k].fid = f
                /\ f \in Range(h.fids1)
                /\ bound[f] = <<>>

\* C20: no handle on the pool's free list is bound to a path on the server:
\* a handle that a walk has bound is returned to the pool only once a clunk
\* has unbound it
C20_ClunkPrecedesPoolReturn ==
    \A f \in Range(fids) : bound[f] = <<>>

\* the transfer unit of a handle opened in this session
Unit == IF srvIounit = 0 THEN msize ELSE srvIounit

RECURSIVE Returned(_, _)
\* the bytes that the first k requests of a log returned
Returned(io, k) == IF k = 0 THEN 0 ELSE Returned(io, k - 1) + io[k].n

\* C18: _read(size, offset, f), on a server that answers a read with one
\* byte at least, and with none only at the end of the file: every request
\* asks for min(bytes still missing, transfer unit) bytes at the offset
\* moved by the bytes returned so far; the call ends without an error and
\* returns content[offset : offset + size], fewer than size bytes only when
\* the file ends there
C18_ChunkedRead ==
    \A h \in Calls :
        h.op = "_read" =>
            LET content == h.data0[<<"a">>]
            IN /\ h.exc = NoExc
               /\ h.got = Slice(content, h.a2, h.a1)
               /\ Len(h.got) < h.a1 => h.a2 + Len(h.got) >= Len(content)
               /\ \A k \in 1..Len(h.io) :
                      /\ h.io[k].c = "read"
                      /\ h.io[k].offset = h.a2 + Returned(h.io, k - 1)
                      /\ h.io[k].count = Min(h.a1 - Returned(h.io, k - 1), Unit)
                      /\ h.io[k].count <= Unit

\* a read of three requests at least, one of them answered short before the
\* end of the file, that returned all the bytes asked for
C18_Witness ==
    \E h \in Calls :
        /\ h.op = "_read" /\ h.exc = NoExc
        /\ Len(h.io) >= 3
        /\ h.a1 > 0 /\ Len(h.got) = h.a1
        /\ \E k \in 1..Len(h.io) : h.io[k].n > 0 /\ h.io[k].n < h.io[k].count

RECURSIVE Sent2(_, _)
\* the bytes that the first k requests of a log carried, in order
Sent2(io, k) == IF k = 0 THEN <<>> ELSE Sent2(io, k - 1) \o io[k].bytes

\* C19: _write(buf, offset, f) makes ceil(len(buf) / unit) write calls;
\* call i carries buf[i*unit : (i+1)*unit] at offset + i*unit, so the slices
\* are no longer than the unit and concatenate to buf; it returns len(buf),
\* whatever counts the replies carry
C19_ChunkedWrite ==
    \A h \in Calls :
        h.op = "_write" =>
            /\ h.exc = NoExc
            /\ Len(h.io) = (Len(h.a1) + Unit - 1) \div Unit
            /\ \A k \in 1..Len(h.io) :
                   /\ h.io[k].c = "write"
                   /\ h.io[k].offset = h.a2 + (k - 1) * Unit
                   /\ h.io[k].bytes = Slice(h.a1, (k - 1) * Unit, Unit)
                   /\ Len(h.io[k].bytes) <= Unit
            /\ Sent2(h.io, Len(h.io)) = h.a1
            /\ h.ret = Len(h.a1)

\* a write of two calls at least, one of which the server took less of than
\* it carried
C19_Witness ==
    \E h \in Calls :
        /\ h.op = "_write" /\ h.exc = NoExc
        /\ Len(h.io) >= 2
        /\ h.ret = Len(h.a1)
        /\ \E k \in 1..Len(h.io) : h.io[k].n < h.io[k].count

\* C21: a close of a file object that holds a handle leaves the object
\* closed and the handle back in the pool, whether close returns or raises
\* and also when the last flush or the clunk fails; a call on a closed
\* object sends no request on its handle
C21_CloseReleasesHandle ==
    \A h \in Calls :
        h.self0._f # NoFid =>
            /\ (h.op = "close" /\ ~h.self0.closed) =>
                   /\ h.self1.closed
                   /\ h.self0._f.fid \in Range(h.fids1)
            /\ h.self0.closed =>
                   \A k \in 1..Len(h.calls) : h.calls[k].fid # h.self0._f.fid

\* the positions of the requests of the given kinds in the calls of h
Sends(h, kinds) == {k \in 1..Len(h.calls) : h.calls[k].c \in kinds}

\* C22: a file object holds no handle when it is made, and making it opens
\* and creates nothing; a call on an object without a handle opens one
\* handle at most, a read without creating anything and for reading, a
\* write or close after creating the file once and for writing; a call on
\* an object that holds a handle opens and creates nothing and keeps the
\* handle
C22_LazySingleMaterialization ==
    \A h \in Calls :
        h.file # 0 =>
            LET opens == Sends(h, {"open", "lopen"})
                creates == Sends(h, {"create", "lcreate"})
            IN /\ (h.op = "open" /\ h.exc = NoExc) =>
                      h.self1._f = NoFid /\ opens = {} /\ creates = {}
               /\ (h.op # "open" /\ h.self0._f # NoFid) =>
                      opens = {} /\ creates = {} /\ h.self1._f = h.self0._f
               /\ (h.op # "open" /\ h.self0._f = NoFid) =>
                      /\ Cardinality(opens) <= 1 /\ Cardinality(creates) <= 1
                      /\ h.op = "read" => creates = {}
                      /\ (h.op = "read" /\ h.self1._f # NoFid) =>
                             BoundOpen(bound, h.self1._f.fid) = "r"
                      /\ (h.op # "read" /\ opens # {}) => creates # {}
                      /\ (h.op = "write" /\ h.self1._f # NoFid) =>
                             BoundOpen(bound, h.self1._f.fid) = "w"

\* a later flush of a file object: the close of an object that holds a
\* handle and has bytes in its buffer
C22_Witness ==
    \E h \in Calls :
        /\ h.op = "close" /\ h.exc = NoExc
        /\ ~h.self0.closed /\ h.self0._f # NoFid
        /\ h.self0.buffer # <<>> /\ h.self1.buffer = <<>>

\* C23: _fetch_range(start, end) with 0 <= start <= end <= the length of
\* the file returns the end - start bytes of the file at the positions
\* start..end-1, and asks the server for no byte at a position from end on
C23_RangeReadExact ==
    \A h \in Calls :
        (h.op = "_fetch_range" /\ h.a2 <= Len(h.data0[<<"a">>])) =>
            /\ h.exc = NoExc
            /\ h.got = Slice(h.data0[<<"a">>], h.a1, h.a2 - h.a1)
            /\ \A k \in 1..Len(h.io) : h.io[k].offset + h.io[k].count <= h.a2

\* C28: _fetch_range(start, end) with start <= end ends after finitely many
\* reads, whatever the length of the file
C28_RangeReadTerminates ==
    \A h \in Calls : h.op = "_fetch_range" => h.exc # "Hang"

\* C24: a thread changes the pool's free list only while it holds the
\* session lock, and an acquire that fails fails with NoFidError
C24_PoolUnderLock ==
    /\ [][\A t \in Threads : (fids' # fids /\ pc'[t] # pc[t]) => lockOwner = t]_vars
    /\ [](\A h \in Calls : h.op = "acquire" => h.exc = "NoFidError")

\* the state a call of SpecFault started in
Before(h) == [World EXCEPT !.fids = h.fids0, !.bound = [f \in FidRange |-> <<>>]]

\* _info ended in what info reports as a missing path
Missing(R) ==
    \/ R.exc = "P9FileNotFound"
    \/ R.exc = "RpcError" /\ R.earg \in {"file not found", "ENOENT"}

\* what a query makes of an answer of _info
Verdict(op, R) ==
    CASE op = "exists" -> TRUE
      [] op = "isdir" -> R.rep.type = "directory"
      [] op = "isfile" -> R.rep.type = "file"
      [] OTHER -> FALSE

\* C25 as amended: info raises P9FileNotFound exactly when _info raised it
\* or raised a protocol error with the reason 'file not found' or ENOENT;
\* exists, isdir and isfile then return False; every other error of _info
\* reaches the caller of all four unchanged; and when _info answers, exists
\* returns True, isdir whether the entry is a directory and isfile whether
\* it is a file, so that isdir and isfile also return False for an entry
\* of the other type
C25_ErrorConversion ==
    \A h \in Calls : h.op \in QueryOps =>
        LET check(R) ==
                IF Missing(R)
                THEN IF h.op = "info" THEN h.exc = "P9FileNotFound"
                     ELSE h.exc = NoExc /\ ~h.ok
                ELSE IF R.exc # NoExc THEN h.exc = R.exc /\ h.earg = R.earg
                ELSE /\ h.exc = NoExc
                     /\ h.op = "info" => h.info = R.rep
                     /\ h.op # "info" => h.ok = Verdict(h.op, R)
        IN check(_info(Before(h), h.path))

\* a query stopped by a protocol error that does not say the path is missing
C25_Witness ==
    \E h \in Calls : /\ h.op \in QueryOps \ {"info"}
                      /\ h.exc = "RpcError" /\ h.earg = "EIO"

\* C25 as stated: exists, isdir and isfile return False exactly when info
\* fails with P9FileNotFound, and every other error propagates
C25_FalseExactlyWhenMissing ==
    \A h \in Calls : h.op \in QueryOps \ {"info"} =>
        LET check(R) ==
                /\ (h.exc = NoExc /\ ~h.ok) <=> Missing(R)
                /\ (~Missing(R) /\ R.exc # NoExc) => (h.exc = R.exc /\ h.earg = R.earg)
        IN check(_info(Before(h), h.path))

\* the requests of a call by kind, in the order sent
KindsSent(h) == [k \in 1..Len(h.calls) |-> h.calls[k].c]

\* the tree without the entry p
Without(T, p) == [q \in DOMAIN T |-> IF q = p THEN "none" ELSE T[q]]

\* C26 as amended: under the Linux variant with no attach name a remove
\* walks its transient handle to the parent of P and sends the
\* name-relative unlinkat with the last component of P, which leaves the
\* handle on the parent; under every other variant, and under the Linux
\* variant with an attach name, it walks the handle to P itself and sends
\* remove on it; it sends one walk and then at most one removing request,
\* none when the walk failed, and when it returns without error exactly
\* one was sent and P is gone from the tree
C26_RemoveDispatch ==
    \A h \in Calls : h.op = "_unlink" =>
        LET p == Parts(h)
            linux == version = "9P2000.L" /\ aname = ""
            tfid == h.fids0[1]
        IN /\ KindsSent(h) \in {<<"walk">>,
                                <<"walk", IF linux THEN "unlinkat" ELSE "remove">>}
           /\ \A k \in 1..Len(h.calls) : h.calls[k].fid = tfid
           /\ (linux /\ Len(h.calls) = 2)
                  => bound[tfid] = Binding(PathParent(p), "none")
           /\ h.exc = NoExc => /\ Len(h.calls) = 2
                               /\ p # <<>>
                               /\ h.tree1 = Without(h.tree0, p)

\* a remove under the Linux variant that took the entry out of its parent
C26_Witness ==
    \E h \in Calls : /\ h.op = "_unlink" /\ h.exc = NoExc
                      /\ version = "9P2000.L" /\ aname = ""
                      /\ KindsSent(h) = <<"walk", "unlinkat">>

\* C26 as stated: the Linux variant walks to P and sends remove, the other
\* variants walk to the parent and send the name-relative request, one
\* removing request for each remove
C26_RemoveByTargetOnLinux ==
    \A h \in Calls : (h.op = "_unlink" /\ h.exc = NoExc) =>
        KindsSent(h) = <<"walk", IF version = "9P2000.L" THEN "remove" ELSE "unlinkat">>

\* the requests that would change what the server keeps
Modifying(h) ==
    \/ h.op \in {"create", "remove", "write", "wstat"}
    \/ h.op = "open" /\ h.a1.mode

\* C27: a server started without write capability answers every request
\* that would modify the backing store, on a fid it knows, with the
\* 'read-only file server' error, and what it keeps (the entries, their
\* content and their modes) is after every request what it was at the start
C27_ReadOnlyServer ==
    /\ \A h \in Calls : (Modifying(h) /\ h.a2) =>
           (h.exc = "RpcError" /\ h.earg = "read-only file server")
    /\ tree = FaultTree
    /\ data = [p \in Paths |-> IF Kind(FaultTree, p) = "file" THEN <<1>> ELSE <<>>]
    /\ perm = DefaultPerm(FaultTree)

\* C29: two threads calling makedirs(P, exist_ok=True) for a path whose
\* components do not exist both return without error, P is a directory
\* once one of them has returned, and a thread that found a component
\* missing creates it before the other thread has created it
C29_ConcurrentMakedirs ==
    /\ \A h \in Calls : h.op = "makedirs" =>
           /\ h.exc = NoExc
           /\ Kind(h.tree1, PathParts(h.path)) = "dir"
    /\ \A t \in Threads : pc[t].at = "mkdir" =>
           Kind(tree, PathParts(Head(pc[t].items))) = "none"

====
